---- MODULE Spec2Model ----
(***************************************************************************)
(* A model of the intakeFormReviewSummary Lightning Web Component          *)
(* (force-app/main/default/lwc/intakeFormReviewSummary/                    *)
(* intakeFormReviewSummary.js).                                            *)
(*                                                                         *)
(* JavaScript values are tagged records [t, v]; a JavaScript string is the *)
(* sequence of its characters, an object the sequence of its <<key,value>> *)
(* entries in property order, an array the sequence of its elements.       *)
(* Numbers are integers below 2^31: fractions, NaN and the infinities are  *)
(* outside the value universe.  The locale of the engine is en-US.         *)
(***************************************************************************)
EXTENDS Integers, Sequences, FiniteSets, TLC

VARIABLES
    omniJsonData,        \* @api omniJsonData
    formData,            \* @api formData
    labelData,           \* @api labelData
    hideEmptyFields,     \* @api hideEmptyFields
    collapsibleSections, \* @api collapsibleSections
    _skipFields,         \* backing field of @api skipFieldsList
    processedSections,   \* @track processedSections
    isLoading,           \* @track isLoading
    hasError,            \* @track hasError
    errorMessage,        \* @track errorMessage
    _formData,           \* internal data holder
    _labelData,          \* internal data holder
    _lastOmniDataHash,
    _isInitialized

vars == <<omniJsonData, formData, labelData, hideEmptyFields, collapsibleSections,
          _skipFields, processedSections, isLoading, hasError, errorMessage,
          _formData, _labelData, _lastOmniDataHash, _isInitialized>>

-----------------------------------------------------------------------------
(* JavaScript values *)

Undefined == [t |-> "undefined", v |-> 0]
Null == [t |-> "null", v |-> 0]
Bool(b) == [t |-> "boolean", v |-> b]
Num(n) == [t |-> "number", v |-> n]
Str(s) == [t |-> "string", v |-> s]
Obj(entries) == [t |-> "object", v |-> entries]
Arr(elems) == [t |-> "array", v |-> elems]
\* a built-in method, by its name
Function(name) == [t |-> "function", v |-> name]

\* the outcome of an expression that throws (TypeError, SyntaxError)
Thrown == [t |-> "thrown", v |-> 0]

\* typeof x: arrays and null are 'object'
TypeOf(x) == IF x.t \in {"array", "null"} THEN "object" ELSE x.t

IsArray(x) == x.t = "array"

\* ToBoolean: what `if (x)`, `!x`, `x && y`, `x || y` test
Truthy(x) ==
    CASE x.t \in {"undefined", "null"} -> FALSE
      [] x.t = "boolean" -> x.v
      [] x.t = "number" -> x.v # 0
      [] x.t = "string" -> x.v # <<>>
      [] OTHER -> TRUE

\* x || y
OrElse(x, y) == IF Truthy(x) THEN x ELSE y

-----------------------------------------------------------------------------
(* Characters and strings *)

UpperCase == <<"A","B","C","D","E","F","G","H","I","J","K","L","M",
               "N","O","P","Q","R","S","T","U","V","W","X","Y","Z">>
LowerCase == <<"a","b","c","d","e","f","g","h","i","j","k","l","m",
               "n","o","p","q","r","s","t","u","v","w","x","y","z">>
Digits == <<"0","1","2","3","4","5","6","7","8","9">>

Range(s) == {s[i] : i \in DOMAIN s}

IsDigit(c) == c \in Range(Digits)
IsUpper(c) == c \in Range(UpperCase)
IsLower(c) == c \in Range(LowerCase)
\* \w of a regular expression
IsWordChar(c) == IsDigit(c) \/ IsUpper(c) \/ IsLower(c) \/ c = "_"
\* the white space String.prototype.trim removes, as far as the alphabet has it
IsSpace(c) == c = " "

DigitVal(c) == (CHOOSE i \in DOMAIN Digits : Digits[i] = c) - 1

ToLowerChar(c) ==
    IF IsUpper(c) THEN LowerCase[CHOOSE i \in DOMAIN UpperCase : UpperCase[i] = c] ELSE c
ToUpperChar(c) ==
    IF IsLower(c) THEN UpperCase[CHOOSE i \in DOMAIN LowerCase : LowerCase[i] = c] ELSE c

\* String.prototype.toLowerCase
ToLowerCase(s) == [i \in DOMAIN s |-> ToLowerChar(s[i])]

\* String.prototype.startsWith
StartsWith(s, p) == Len(s) >= Len(p) /\ SubSeq(s, 1, Len(p)) = p

\* String.prototype.endsWith
EndsWith(s, p) == Len(s) >= Len(p) /\ SubSeq(s, Len(s) - Len(p) + 1, Len(s)) = p

\* String.prototype.includes
Includes(s, p) == \E i \in 0..(Len(s) - Len(p)) : SubSeq(s, i + 1, i + Len(p)) = p

\* String.prototype.replace(/\D/g, '')
RECURSIVE StripNonDigits(_)
StripNonDigits(s) ==
    IF s = <<>> THEN <<>>
    ELSE IF IsDigit(Head(s)) THEN <<Head(s)>> \o StripNonDigits(Tail(s))
    ELSE StripNonDigits(Tail(s))

\* String.prototype.trim
RECURSIVE TrimStart(_)
TrimStart(s) == IF s # <<>> /\ IsSpace(Head(s)) THEN TrimStart(Tail(s)) ELSE s
RECURSIVE TrimEnd(_)
TrimEnd(s) ==
    IF s # <<>> /\ IsSpace(s[Len(s)]) THEN TrimEnd(SubSeq(s, 1, Len(s) - 1)) ELSE s
Trim(s) == TrimEnd(TrimStart(s))

\* the decimal digits of a natural number
RECURSIVE NatToString(_)
NatToString(n) ==
    IF n < 10 THEN <<Digits[n + 1]>>
    ELSE NatToString(n \div 10) \o <<Digits[(n % 10) + 1]>>

\* String(n) of an integer
IntToString(n) == IF n < 0 THEN <<"-">> \o NatToString(-n) ELSE NatToString(n)

\* the value of a string of digits
RECURSIVE DigitsToNat(_)
DigitsToNat(s) ==
    IF s = <<>> THEN 0
    ELSE 10 * DigitsToNat(SubSeq(s, 1, Len(s) - 1)) + DigitVal(s[Len(s)])

-----------------------------------------------------------------------------
(* Objects *)

Keys(entries) == [i \in DOMAIN entries |-> entries[i][1]]

HasKey(entries, key) == \E i \in DOMAIN entries : entries[i][1] = key

Lookup(entries, key) ==
    IF HasKey(entries, key)
    THEN entries[CHOOSE i \in DOMAIN entries : entries[i][1] = key][2]
    ELSE Undefined

\* whether key is the decimal form of an index below n
IsIndex(key, n) == \E i \in 0..(n - 1) : key = NatToString(i)

\* members every value but null and undefined inherits from Object.prototype
ObjectPrototype == {<<"c","o","n","s","t","r","u","c","t","o","r">>, <<"t","o","S","t","r","i","n","g">>, <<"v","a","l","u","e","O","f">>, <<"h","a","s","O","w","n","P","r","o","p","e","r","t","y">>}
sLength == <<"l","e","n","g","t","h">>

\* x[key]: the own property of an object, the element or the length of an array,
\* the character or the length of a string, then the inherited member, undefined
\* otherwise, and a TypeError on null and undefined
Get(x, key) ==
    CASE x.t \in {"null", "undefined"} -> Thrown
      [] x.t = "object" /\ HasKey(x.v, key) -> Lookup(x.v, key)
      [] x.t = "array" /\ IsIndex(key, Len(x.v)) -> x.v[DigitsToNat(key) + 1]
      [] x.t = "string" /\ IsIndex(key, Len(x.v)) -> Str(<<x.v[DigitsToNat(key) + 1]>>)
      [] x.t \in {"array", "string"} /\ key = sLength -> Num(Len(x.v))
      [] key \in ObjectPrototype -> Function(key)
      [] OTHER -> Undefined

\* Object.keys(x): the keys of an object in property order (the entries are kept
\* in it), the indices of an array or a string, nothing for a number or a boolean
ObjectKeys(x) ==
    CASE x.t = "object" -> Keys(x.v)
      [] x.t \in {"array", "string"} -> [i \in DOMAIN x.v |-> NatToString(i - 1)]
      [] OTHER -> <<>>

\* value.isObject(): a plain object
isObject(value) == value.t # "null" /\ TypeOf(value) = "object" /\ ~IsArray(value)

\* a key that is an array index: such keys come first in property order, ascending
IsArrayIndex(key) ==
    /\ key # <<>>
    /\ Len(key) <= 9
    /\ \A i \in DOMAIN key : IsDigit(key[i])
    /\ (Len(key) = 1 \/ key[1] # "0")

\* entries with entry put after its first n elements
InsertAfter(entries, n, entry) ==
    SubSeq(entries, 1, n) \o <<entry>> \o SubSeq(entries, n + 1, Len(entries))

\* obj[key] = val on the entries of an object
PutEntry(entries, key, val) ==
    IF HasKey(entries, key)
    THEN [i \in DOMAIN entries |->
            IF entries[i][1] = key THEN <<key, val>> ELSE entries[i]]
    ELSE IF IsArrayIndex(key)
    THEN InsertAfter(entries,
                     Cardinality({i \in DOMAIN entries :
                                    /\ IsArrayIndex(entries[i][1])
                                    /\ DigitsToNat(entries[i][1]) < DigitsToNat(key)}),
                     <<key, val>>)
    ELSE Append(entries, <<key, val>>)

-----------------------------------------------------------------------------
(* String(value) *)

sNull == <<"n","u","l","l">>
sUndefined == <<"u","n","d","e","f","i","n","e","d">>
sTrue == <<"t","r","u","e">>
sFalse == <<"f","a","l","s","e">>
sObjectObject == <<"[","o","b","j","e","c","t"," ","O","b","j","e","c","t","]">>
sFunction == <<"f","u","n","c","t","i","o","n"," ">>
sNativeCode == <<"(",")"," ","{"," ","[","n","a","t","i","v","e"," ","c","o","d","e","]"," ","}">>

RECURSIVE StringOf(_)
RECURSIVE JoinElems(_)
\* Array.prototype.join(','): null and undefined elements give the empty string
JoinElems(elems) ==
    IF elems = <<>> THEN <<>>
    ELSE (IF Head(elems).t \in {"null", "undefined"} THEN <<>> ELSE StringOf(Head(elems)))
         \o (IF Len(elems) > 1 THEN <<",">> \o JoinElems(Tail(elems)) ELSE <<>>)

StringOf(x) ==
    CASE x.t = "undefined" -> sUndefined
      [] x.t = "null" -> sNull
      [] x.t = "boolean" -> IF x.v THEN sTrue ELSE sFalse
      [] x.t = "number" -> IntToString(x.v)
      [] x.t = "string" -> x.v
      [] x.t = "array" -> JoinElems(x.v)
      [] x.t = "function" -> sFunction \o x.v \o sNativeCode
      [] OTHER -> sObjectObject

-----------------------------------------------------------------------------
(* JSON.parse and JSON.stringify, for texts of integers, strings without  *)
(* escapes, true, false, null, arrays and objects, with spaces allowed     *)
(* between the tokens.  A step of the parser is an operator that takes the *)
(* result of the step before it as a parameter.                            *)

ParseFail == [ok |-> FALSE, val |-> Undefined, next |-> 0]
ParseOk(val, next) == [ok |-> TRUE, val |-> val, next |-> next]

RECURSIVE SkipSpaces(_, _)
SkipSpaces(s, i) == IF i <= Len(s) /\ s[i] = " " THEN SkipSpaces(s, i + 1) ELSE i

\* the index of the first character at or after i that is no digit
RECURSIVE SkipDigits(_, _)
SkipDigits(s, i) == IF i <= Len(s) /\ IsDigit(s[i]) THEN SkipDigits(s, i + 1) ELSE i

\* the index of the closing quote at or after i, 0 when there is none
RECURSIVE FindQuote(_, _)
FindQuote(s, i) ==
    IF i > Len(s) THEN 0 ELSE IF s[i] = "\"" THEN i ELSE FindQuote(s, i + 1)

ParseLiteral(s, i, word, val) ==
    IF i + Len(word) - 1 <= Len(s) /\ SubSeq(s, i, i + Len(word) - 1) = word
    THEN ParseOk(val, i + Len(word))
    ELSE ParseFail

\* the digits s[d..e-1] of a number, negated when neg
numberFrom(s, neg, d, e) ==
    IF e = d THEN ParseFail
    ELSE ParseOk(Num((IF neg THEN -1 ELSE 1) * DigitsToNat(SubSeq(s, d, e - 1))), e)

\* the digits of a number start at d: 0 | [1-9][0-9]*
digitsFrom(s, neg, d) ==
    numberFrom(s, neg, d, IF d <= Len(s) /\ s[d] = "0" THEN d + 1 ELSE SkipDigits(s, d))

\* -? (0 | [1-9][0-9]*)
ParseNumber(s, i) == digitsFrom(s, s[i] = "-", IF s[i] = "-" THEN i + 1 ELSE i)

\* the string that opens at i and closes at the quote q
stringUpTo(s, i, q) ==
    IF q = 0 THEN ParseFail ELSE ParseOk(Str(SubSeq(s, i + 1, q - 1)), q + 1)

ParseString(s, i) == stringUpTo(s, i, FindQuote(s, i + 1))

RECURSIVE ParseValue(_, _)
RECURSIVE ParseElements(_, _, _)
RECURSIVE ParseMembers(_, _, _)

\* after an element: ',' and the next element, or ']'
elementNext(s, acc, j) ==
    IF j > Len(s) THEN ParseFail
    ELSE IF s[j] = "," THEN ParseElements(s, j + 1, acc)
    ELSE IF s[j] = "]" THEN ParseOk(Arr(acc), j + 1)
    ELSE ParseFail

elementDone(s, acc, r) ==
    IF ~r.ok THEN ParseFail ELSE elementNext(s, Append(acc, r.val), SkipSpaces(s, r.next))

\* the elements of an array after '[' or ',': i is at the start of an element
ParseElements(s, i, acc) == elementDone(s, acc, ParseValue(s, i))

\* after a member: ',' and the next member, or '}'
memberNext(s, acc, j) ==
    IF j > Len(s) THEN ParseFail
    ELSE IF s[j] = "," THEN ParseMembers(s, j + 1, acc)
    ELSE IF s[j] = "}" THEN ParseOk(Obj(acc), j + 1)
    ELSE ParseFail

memberDone(s, acc, key, r) ==
    IF ~r.ok THEN ParseFail
    ELSE memberNext(s, PutEntry(acc, key, r.val), SkipSpaces(s, r.next))

memberValue(s, acc, key, c) ==
    IF c <= Len(s) /\ s[c] = ":" THEN memberDone(s, acc, key, ParseValue(s, c + 1))
    ELSE ParseFail

memberColon(s, acc, key) ==
    IF ~key.ok THEN ParseFail ELSE memberValue(s, acc, key.val.v, SkipSpaces(s, key.next))

memberKey(s, acc, k) ==
    IF k <= Len(s) /\ s[k] = "\"" THEN memberColon(s, acc, ParseString(s, k))
    ELSE ParseFail

\* the members of an object after '{' or ',': i is at or before the start of a key
ParseMembers(s, i, acc) == memberKey(s, acc, SkipSpaces(s, i))

\* an object opened at i, whose first token is at j
objectFrom(s, i, j) ==
    IF j <= Len(s) /\ s[j] = "}" THEN ParseOk(Obj(<<>>), j + 1)
    ELSE ParseMembers(s, i + 1, <<>>)

\* an array opened at i, whose first token is at j
arrayFrom(s, i, j) ==
    IF j <= Len(s) /\ s[j] = "]" THEN ParseOk(Arr(<<>>), j + 1)
    ELSE ParseElements(s, i + 1, <<>>)

\* the value whose first character is at i
valueAt(s, i) ==
    IF i > Len(s) THEN ParseFail
    ELSE CASE s[i] = "{" -> objectFrom(s, i, SkipSpaces(s, i + 1))
           [] s[i] = "[" -> arrayFrom(s, i, SkipSpaces(s, i + 1))
           [] s[i] = "\"" -> ParseString(s, i)
           [] s[i] = "t" -> ParseLiteral(s, i, sTrue, Bool(TRUE))
           [] s[i] = "f" -> ParseLiteral(s, i, sFalse, Bool(FALSE))
           [] s[i] = "n" -> ParseLiteral(s, i, sNull, Null)
           [] s[i] = "-" \/ IsDigit(s[i]) -> ParseNumber(s, i)
           [] OTHER -> ParseFail

ParseValue(s, i) == valueAt(s, SkipSpaces(s, i))

\* the whole text is one value
wholeText(s, r) == IF r.ok /\ SkipSpaces(s, r.next) > Len(s) THEN r.val ELSE Thrown

\* JSON.parse(text): the value, or Thrown for a SyntaxError
JSONParse(s) == wholeText(s, ParseValue(s, 1))

RECURSIVE Stringify(_)
RECURSIVE Escaped(_)
\* the characters of a string between the quotes: a quote and a backslash are
\* written behind a backslash
Escaped(s) ==
    IF s = <<>> THEN <<>>
    ELSE (IF Head(s) \in {"\"", "\\"} THEN <<"\\", Head(s)>> ELSE <<Head(s)>>)
         \o Escaped(Tail(s))

RECURSIVE StringifyElems(_)
RECURSIVE StringifyEntries(_, _)

\* an undefined element of an array is written null
StringifyElems(elems) ==
    IF elems = <<>> THEN <<>>
    ELSE (IF Head(elems).t = "undefined" THEN sNull ELSE Stringify(Head(elems)))
         \o (IF Len(elems) > 1 THEN <<",">> \o StringifyElems(Tail(elems)) ELSE <<>>)

\* an undefined property of an object is left out
StringifyEntries(entries, first) ==
    IF entries = <<>> THEN <<>>
    ELSE IF Head(entries)[2].t = "undefined" THEN StringifyEntries(Tail(entries), first)
    ELSE (IF first THEN <<>> ELSE <<",">>)
         \o <<"\"">> \o Escaped(Head(entries)[1]) \o <<"\"", ":">>
         \o Stringify(Head(entries)[2])
         \o StringifyEntries(Tail(entries), FALSE)

\* JSON.stringify(x), as a string, of a value that is not undefined
Stringify(x) ==
    CASE x.t = "object" -> <<"{">> \o StringifyEntries(x.v, TRUE) \o <<"}">>
      [] x.t = "array" -> <<"[">> \o StringifyElems(x.v) \o <<"]">>
      [] x.t = "string" -> <<"\"">> \o Escaped(x.v) \o <<"\"">>
      [] OTHER -> StringOf(x)

-----------------------------------------------------------------------------
(* Number and date formatting of the en-US locale *)

\* the one character U+2014 (em dash) of the empty-value placeholder
Placeholder == <<"EM-DASH">>

sYes == <<"Y","e","s">>
sNo == <<"N","o">>
sYesLower == <<"y","e","s">>
sNoLower == <<"n","o">>

\* the digits of a natural number in groups of three: 15000 gives 15,000
RECURSIVE GroupThousands(_)
GroupThousands(ds) ==
    IF Len(ds) <= 3 THEN ds
    ELSE GroupThousands(SubSeq(ds, 1, Len(ds) - 3)) \o <<",">> \o SubSeq(ds, Len(ds) - 2, Len(ds))

\* a string of digits without its leading zeros
RECURSIVE StripLeadingZeros(_)
StripLeadingZeros(ds) ==
    IF Len(ds) > 1 /\ Head(ds) = "0" THEN StripLeadingZeros(Tail(ds)) ELSE ds

\* a number as parseFloat and typeof === 'number' give it: not-a-number, or a
\* sign and the decimal digits of the magnitude (parseFloat('-0') is -0)
NaN == [nan |-> TRUE, neg |-> FALSE, mag |-> <<>>]
Number(neg, mag) == [nan |-> FALSE, neg |-> neg, mag |-> mag]

\* the digits d[1..e-1] that follow the sign
floatUpTo(neg, d, e) ==
    IF e = 1 THEN NaN ELSE Number(neg, StripLeadingZeros(SubSeq(d, 1, e - 1)))

floatDigits(neg, d) == floatUpTo(neg, d, SkipDigits(d, 1))

floatFrom(b) ==
    floatDigits(b # <<>> /\ Head(b) = "-",
                IF b # <<>> /\ Head(b) \in {"-", "+"} THEN Tail(b) ELSE b)

\* parseFloat(s): leading white space, an optional sign, then digits; what follows
\* the digits is ignored
parseFloat(s) == floatFrom(TrimStart(s))

\* typeof value === 'number' ? value : parseFloat(value)
numValue(value) ==
    IF value.t = "number"
    THEN Number(value.v < 0, NatToString(IF value.v < 0 THEN -value.v ELSE value.v))
    ELSE parseFloat(StringOf(value))

\* Number.prototype.toLocaleString('en-US') of an integer
toLocaleString(n) == (IF n.neg THEN <<"-">> ELSE <<>>) \o GroupThousands(n.mag)

\* new Intl.NumberFormat('en-US', {style: 'currency', currency: 'USD'}).format(n)
formatCurrency(n) ==
    (IF n.neg THEN <<"-">> ELSE <<>>) \o <<"$">> \o GroupThousands(n.mag) \o <<".", "0", "0">>

MonthNames == <<
    <<"J","a","n","u","a","r","y">>,
    <<"F","e","b","r","u","a","r","y">>,
    <<"M","a","r","c","h">>,
    <<"A","p","r","i","l">>,
    <<"M","a","y">>,
    <<"J","u","n","e">>,
    <<"J","u","l","y">>,
    <<"A","u","g","u","s","t">>,
    <<"S","e","p","t","e","m","b","e","r">>,
    <<"O","c","t","o","b","e","r">>,
    <<"N","o","v","e","m","b","e","r">>,
    <<"D","e","c","e","m","b","e","r">>>>

IsLeapYear(y) == (y % 4 = 0 /\ y % 100 # 0) \/ y % 400 = 0

\* the days of month m (0 is January) of year y
DaysInMonth(y, m) ==
    CASE m = 1 -> IF IsLeapYear(y) THEN 29 ELSE 28
      [] m \in {3, 5, 8, 10} -> 30
      [] OTHER -> 31

\* new Date(year, monthIndex, day): a month index outside 0..11 and a day outside
\* the month carry into the neighbouring months and years
RECURSIVE NormalizeDate(_, _, _)
NormalizeDate(y, m, d) ==
    IF m < 0 THEN NormalizeDate(y - 1, m + 12, d)
    ELSE IF m > 11 THEN NormalizeDate(y + 1, m - 12, d)
    ELSE IF d < 1 THEN
        (IF m = 0 THEN NormalizeDate(y - 1, 11, d + 31)
         ELSE NormalizeDate(y, m - 1, d + DaysInMonth(y, m - 1)))
    ELSE IF d > DaysInMonth(y, m) THEN NormalizeDate(y, m + 1, d - DaysInMonth(y, m))
    ELSE [year |-> y, month |-> m, day |-> d]

\* a year of 0..99 given to the Date constructor means 1900..1999
NewDate(year, monthIndex, day) ==
    NormalizeDate(IF year <= 99 THEN 1900 + year ELSE year, monthIndex, day)

\* date.toLocaleDateString('en-US', {year: 'numeric', month: 'long', day: 'numeric'})
toLocaleDateString(date) ==
    MonthNames[date.month + 1] \o <<" ">> \o NatToString(date.day) \o <<",", " ">>
        \o NatToString(date.year)

\* /^\d{4}-\d{2}-\d{2}$/.test(s)
IsIsoDate(s) ==
    /\ Len(s) = 10
    /\ \A i \in {1, 2, 3, 4, 6, 7, 9, 10} : IsDigit(s[i])
    /\ s[5] = "-" /\ s[8] = "-"

-----------------------------------------------------------------------------
(* String constants of the component *)

sBoolean == <<"b","o","o","l","e","a","n">>
sEmail == <<"e","m","a","i","l">>
sPhone == <<"p","h","o","n","e">>
sTel == <<"t","e","l">>
sAmount == <<"a","m","o","u","n","t">>
sBudget == <<"b","u","d","g","e","t">>
sCost == <<"c","o","s","t">>
sPrice == <<"p","r","i","c","e">>
sCurrency == <<"c","u","r","r","e","n","c","y">>
sDate == <<"d","a","t","e">>
sText == <<"t","e","x","t">>
sNumber == <<"n","u","m","b","e","r">>
sStep == <<"s","t","e","p">>
sSection == <<"s","e","c","t","i","o","n">>
sForm == <<"f","o","r","m">>
sPage == <<"p","a","g","e">>
sBlock == <<"b","l","o","c","k">>
sList == <<"l","i","s","t">>
sGroup == <<"g","r","o","u","p">>
sContainer == <<"c","o","n","t","a","i","n","e","r">>
kLabel == <<"l","a","b","e","l">>
kType == <<"t","y","p","e">>
kColspan == <<"c","o","l","s","p","a","n">>
kOrder == <<"_","o","r","d","e","r">>
kSectionTitle == <<"_","s","e","c","t","i","o","n","T","i","t","l","e">>
kBlockTitle == <<"_","b","l","o","c","k","T","i","t","l","e">>
sUtilityCheck == <<"u","t","i","l","i","t","y",":","c","h","e","c","k">>
sUtilityClose == <<"u","t","i","l","i","t","y",":","c","l","o","s","e">>
sIconSuccess == <<"i","c","o","n","-","s","u","c","c","e","s","s">>
sIconError == <<"i","c","o","n","-","e","r","r","o","r">>
sChevronDown == <<"u","t","i","l","i","t","y",":","c","h","e","v","r","o","n","d","o","w","n">>
sChevronRight == <<"u","t","i","l","i","t","y",":","c","h","e","v","r","o","n","r","i","g","h","t">>
sContentPrefix == <<"c","o","n","t","e","n","t","-">>
sSpanPrefix == <<"f","i","e","l","d","-","i","t","e","m"," ","s","p","a","n","-">>

-----------------------------------------------------------------------------
(* Titles *)

\* s.replace(/[_-](w1|w2|...)$/i, ''): words holds the alternatives in lower case
StripSuffix(s, words) ==
    LET hit(w) == /\ Len(s) > Len(w)
                  /\ EndsWith(ToLowerCase(s), w)
                  /\ s[Len(s) - Len(w)] \in {"_", "-"}
    IN  IF \E w \in words : hit(w)
        THEN SubSeq(s, 1, Len(s) - Len(CHOOSE w \in words : hit(w)) - 1)
        ELSE s

\* s.replace(/[_-]/g, ' ')
SeparatorsToSpaces(s) == [i \in DOMAIN s |-> IF s[i] \in {"_", "-"} THEN " " ELSE s[i]]

\* s.replace(/([a-z])([A-Z])/g, '$1 $2')
RECURSIVE SplitCamelCase(_)
SplitCamelCase(s) ==
    IF Len(s) < 2 THEN s
    ELSE <<s[1]>> \o (IF IsLower(s[1]) /\ IsUpper(s[2]) THEN <<" ">> ELSE <<>>)
         \o SplitCamelCase(Tail(s))

\* s.replace(/\b\w/g, l => l.toUpperCase())
CapitalizeWords(s) ==
    [i \in DOMAIN s |->
        IF IsWordChar(s[i]) /\ (i = 1 \/ ~IsWordChar(s[i - 1]))
        THEN ToUpperChar(s[i]) ELSE s[i]]

formatSectionTitle(key) ==
    Str(Trim(CapitalizeWords(SplitCamelCase(SeparatorsToSpaces(
        StripSuffix(key, {sStep, sSection, sForm, sPage}))))))

formatBlockTitle(key, blockLabels) ==
    IF /\ Truthy(blockLabels)
       /\ TypeOf(blockLabels) = "object"
       /\ Truthy(Get(blockLabels, kBlockTitle))
    THEN Get(blockLabels, kBlockTitle)
    ELSE LET title == Trim(CapitalizeWords(SplitCamelCase(SeparatorsToSpaces(
                          StripSuffix(key, {sBlock, sList, sGroup, sSection, sContainer})))))
         IN  IF title # <<>> THEN Str(title) ELSE Str(key)

-----------------------------------------------------------------------------
(* Fields.  Where the code binds a value to a local and reads it several   *)
(* times, the model hands it to an operator as a parameter.                *)

\* formatPhoneNumber once the digits are known
phoneFromDigits(value, cleaned) ==
    IF Len(cleaned) = 10
    THEN <<"(">> \o SubSeq(cleaned, 1, 3) \o <<")", " ">> \o SubSeq(cleaned, 4, 6)
         \o <<"-">> \o SubSeq(cleaned, 7, Len(cleaned))
    ELSE IF Len(cleaned) = 11 /\ cleaned[1] = "1"
    THEN <<"+", "1", " ", "(">> \o SubSeq(cleaned, 2, 4) \o <<")", " ">>
         \o SubSeq(cleaned, 5, 7) \o <<"-">> \o SubSeq(cleaned, 8, Len(cleaned))
    ELSE IF Len(cleaned) > 10
    THEN <<"+">> \o SubSeq(cleaned, 1, Len(cleaned) - 10) \o <<" ">>
         \o SubSeq(cleaned, Len(cleaned) - 9, Len(cleaned) - 7) \o <<" ">>
         \o SubSeq(cleaned, Len(cleaned) - 6, Len(cleaned) - 4) \o <<" ">>
         \o SubSeq(cleaned, Len(cleaned) - 3, Len(cleaned))
    ELSE StringOf(value)

formatPhoneNumber(value) ==
    IF ~Truthy(value) THEN Placeholder
    ELSE phoneFromDigits(value, StripNonDigits(StringOf(value)))

\* A string that is no YYYY-MM-DD goes to the engine's own date parser, which the
\* model takes to reject it (Invalid Date): so it does for every string without a
\* digit, and the strings with digits are kept out of the date-typed inputs.
formatDate(value) ==
    IF ~Truthy(value) THEN Placeholder
    ELSE IF value.t = "string" /\ IsIsoDate(value.v)
    THEN toLocaleDateString(NewDate(DigitsToNat(SubSeq(value.v, 1, 4)),
                                    DigitsToNat(SubSeq(value.v, 6, 7)) - 1,
                                    DigitsToNat(SubSeq(value.v, 9, 10))))
    ELSE StringOf(value)

\* the string booleans: strVal is String(value).toLowerCase()
booleanText(value, strVal) ==
    IF strVal = sTrue \/ strVal = sYesLower THEN sYes
    ELSE IF strVal = sFalse \/ strVal = sNoLower THEN sNo
    ELSE StringOf(value)

currencyText(value, n) == IF ~n.nan THEN formatCurrency(n) ELSE StringOf(value)

numberText(value, n) == IF ~n.nan THEN toLocaleString(n) ELSE StringOf(value)

formatValue(value, fieldType) ==
    IF value.t \in {"null", "undefined"} \/ value = Str(<<>>) THEN Placeholder
    ELSE IF value.t = "boolean" THEN (IF value.v THEN sYes ELSE sNo)
    ELSE IF fieldType = Str(sBoolean) THEN booleanText(value, ToLowerCase(StringOf(value)))
    ELSE IF fieldType = Str(sCurrency) THEN currencyText(value, numValue(value))
    ELSE IF fieldType = Str(sPhone) THEN formatPhoneNumber(value)
    ELSE IF fieldType = Str(sEmail) THEN ToLowerCase(Trim(StringOf(value)))
    ELSE IF fieldType = Str(sDate) THEN formatDate(value)
    ELSE IF fieldType = Str(sNumber) THEN numberText(value, numValue(value))
    ELSE IF value.t = "number" THEN toLocaleString(numValue(value))
    ELSE StringOf(value)

\* typeOfKey with the telephone patterns tried before the e-mail pattern
typeOfKeyPhoneFirst(keyLower, value) ==
    IF Includes(keyLower, sPhone) \/ Includes(keyLower, sTel) THEN Str(sPhone)
    ELSE IF Includes(keyLower, sEmail) THEN Str(sEmail)
    ELSE IF \/ Includes(keyLower, sAmount) \/ Includes(keyLower, sBudget)
            \/ Includes(keyLower, sCost) \/ Includes(keyLower, sPrice)
    THEN Str(sCurrency)
    ELSE IF Includes(keyLower, sDate) \/ (value.t = "string" /\ IsIsoDate(value.v))
    THEN Str(sDate)
    ELSE Str(sText)

\* the key patterns of detectFieldType, on the key in lower case
typeOfKey(keyLower, value) ==
    IF Includes(keyLower, sEmail) THEN Str(sEmail)
    ELSE IF Includes(keyLower, sPhone) \/ Includes(keyLower, sTel) THEN Str(sPhone)
    ELSE IF \/ Includes(keyLower, sAmount) \/ Includes(keyLower, sBudget)
            \/ Includes(keyLower, sCost) \/ Includes(keyLower, sPrice)
    THEN Str(sCurrency)
    ELSE IF Includes(keyLower, sDate) \/ (value.t = "string" /\ IsIsoDate(value.v))
    THEN Str(sDate)
    ELSE Str(sText)

detectFieldType(key, value) ==
    IF value.t = "boolean" THEN Str(sBoolean) ELSE typeOfKey(ToLowerCase(key), value)

\* clampColspan without Math.min
clampColspanBelow(c) == IF c < 1 THEN 1 ELSE c

\* Math.min(Math.max(c, 1), 12)
clampColspan(c) == IF c < 1 THEN 1 ELSE IF c > 12 THEN 12 ELSE c

DefaultColspan == 6

\* typeof labelInfo.colspan === 'number' ? clamp : 6
colspanOf(colspan) ==
    IF TypeOf(colspan) = "number" THEN clampColspan(colspan.v) ELSE DefaultColspan

\* typeof labelInfo === 'string' || (typeof labelInfo === 'object' && labelInfo.label):
\* labelInfo.label of a null labelInfo is a TypeError
isValidLabel(labelInfo) ==
    IF TypeOf(labelInfo) = "string" THEN Bool(TRUE)
    ELSE IF TypeOf(labelInfo) # "object" THEN Bool(FALSE)
    ELSE IF labelInfo.t = "null" THEN Thrown
    ELSE Bool(Truthy(Get(labelInfo, kLabel)))

\* the object processField returns
fieldRecord(key, value, label, fieldType, displayValue, colspan) ==
    [t |-> "object",
     id |-> key,
     key |-> key,
     label |-> label,
     value |-> value,
     displayValue |-> displayValue,
     fieldType |-> fieldType,
     isBoolean |-> fieldType = Str(sBoolean),
     isCurrency |-> fieldType = Str(sCurrency),
     isDate |-> fieldType = Str(sDate),
     isEmail |-> fieldType = Str(sEmail),
     isPhone |-> fieldType = Str(sPhone),
     isNumber |-> fieldType = Str(sNumber),
     isText |-> fieldType \notin {Str(sBoolean), Str(sCurrency), Str(sDate),
                                  Str(sEmail), Str(sPhone), Str(sNumber)},
     booleanIcon |-> IF fieldType = Str(sBoolean)
                     THEN (IF Truthy(value) THEN sUtilityCheck ELSE sUtilityClose)
                     ELSE <<>>,
     booleanIconClass |-> IF fieldType = Str(sBoolean)
                          THEN (IF Truthy(value) THEN sIconSuccess ELSE sIconError)
                          ELSE <<>>,
     colspan |-> colspan,
     spanClass |-> sSpanPrefix \o IntToString(colspan)]

\* lines 434-457: the field of a resolved fieldType
typedField(key, value, label, fieldType, colspan) ==
    fieldRecord(key, value, label, fieldType, formatValue(value, fieldType), colspan)

\* lines 415-430: label, explicitType and colspan of a label entry, or Null
labelParts(labelInfo) ==
    IF TypeOf(labelInfo) = "object" /\ Truthy(Get(labelInfo, kLabel))
    THEN [t |-> "object",
          label |-> Get(labelInfo, kLabel),
          explicitType |-> Get(labelInfo, kType),
          colspan |-> colspanOf(Get(labelInfo, kColspan))]
    ELSE IF TypeOf(labelInfo) = "string"
    THEN [t |-> "object", label |-> labelInfo, explicitType |-> Null,
          colspan |-> DefaultColspan]
    ELSE Null

\* lines 432-457: explicitType || this.detectFieldType(key, value)
fieldOf(key, value, parts) ==
    IF parts.t = "null" THEN Null
    ELSE typedField(key, value, parts.label,
                    OrElse(parts.explicitType, detectFieldType(key, value)), parts.colspan)

\* the field of a key, or Null when the label entry gives no label
processField(key, value, labelInfo) ==
    IF ~Truthy(labelInfo) THEN Null ELSE fieldOf(key, value, labelParts(labelInfo))

-----------------------------------------------------------------------------
(* Array blocks, blocks and sections.  Each operator gives what the method *)
(* returns, or Thrown when the method throws.  A loop is a recursion over  *)
(* the index of its key; its body is a step from the container built so    *)
(* far to the next one.                                                    *)

\* keepField without the test of hideEmptyFields
keepAnyField(field) == Truthy(field)

\* field && (!this.hideEmptyFields || field.displayValue !== EM DASH)
keepField(field) ==
    Truthy(field) /\ (~hideEmptyFields \/ field.displayValue # Placeholder)

\* container.fields.push(field) under that condition
pushField(container, field) ==
    IF keepField(field) THEN [container EXCEPT !.fields = Append(@, field)] ELSE container

\* the simple-field branch of the three loops: valid is isValidLabel(labelInfo)
addField(container, key, value, labelInfo, valid) ==
    IF valid.t = "thrown" THEN Thrown
    ELSE IF ~valid.v THEN container
    ELSE pushField(container, processField(key, value, labelInfo))

\* the body of the inner loop of processArray: value is item[key]
itemStep(processedItem, key, value, labelInfo) ==
    IF value.t = "thrown" THEN Thrown
    ELSE IF value.t = "undefined" THEN processedItem
    ELSE addField(processedItem, key, value, labelInfo, isValidLabel(labelInfo))

RECURSIVE itemLoop(_, _, _, _, _)
itemLoop(labelKeys, k, item, itemLabels, processedItem) ==
    IF k > Len(labelKeys) \/ processedItem.t = "thrown" THEN processedItem
    ELSE itemLoop(labelKeys, k + 1, item, itemLabels,
                  itemStep(processedItem, labelKeys[k], Get(item, labelKeys[k]),
                           Get(itemLabels, labelKeys[k])))

\* block.columns.push({label, fieldName}) for each field pushed while index === 0
columnsOf(fields) ==
    [i \in DOMAIN fields |-> [label |-> fields[i].label, fieldName |-> fields[i].key]]

\* pushItem with the columns taken from every element, not from the first one only
pushItemColumns(block, index, processedItem) ==
    IF processedItem.t = "thrown" THEN Thrown
    ELSE [block EXCEPT
            !.items = IF Len(processedItem.fields) > 0 THEN Append(@, processedItem) ELSE @,
            !.columns = columnsOf(processedItem.fields)]

\* the end of the forEach callback: processedItem is the item after its inner loop
pushItem(block, index, processedItem) ==
    IF processedItem.t = "thrown" THEN Thrown
    ELSE [block EXCEPT
            !.items = IF Len(processedItem.fields) > 0 THEN Append(@, processedItem) ELSE @,
            !.columns = IF index = 0 THEN columnsOf(processedItem.fields) ELSE @]

\* arrayData.forEach over arrayData[n..]
RECURSIVE arrayLoop(_, _, _, _, _)
arrayLoop(arrayData, n, labelKeys, itemLabels, block) ==
    IF n > Len(arrayData) \/ block.t = "thrown" THEN block
    ELSE arrayLoop(arrayData, n + 1, labelKeys, itemLabels,
                   pushItem(block, n - 1,
                            itemLoop(labelKeys, 1, arrayData[n], itemLabels,
                                     [t |-> "object",
                                      id |-> block.id \o <<"_">> \o NatToString(n - 1),
                                      index |-> n,
                                      fields |-> <<>>])))

\* return block.items.length > 0 ? block : null
arrayOrNull(block) ==
    IF block.t = "thrown" THEN Thrown
    ELSE IF Len(block.items) > 0 THEN block
    ELSE Null

\* lines 341-398, with the item labels resolved
arrayBlock(arrayKey, arrayData, itemLabels) ==
    IF ~Truthy(itemLabels) THEN Null
    ELSE arrayOrNull(
            arrayLoop(arrayData.v, 1,
                      SelectSeq(ObjectKeys(itemLabels), LAMBDA k : ~StartsWith(k, <<"_">>)),
                      itemLabels,
                      [t |-> "object",
                       id |-> arrayKey,
                       title |-> OrElse(Get(itemLabels, kBlockTitle),
                                        formatBlockTitle(arrayKey, itemLabels)),
                       isBlock |-> TRUE,
                       isArray |-> TRUE,
                       items |-> <<>>,
                       columns |-> <<>>]))

processArray(arrayKey, arrayData, arrayLabels) ==
    IF ~Truthy(arrayData) \/ Len(arrayData.v) = 0 \/ ~Truthy(arrayLabels) THEN Null
    ELSE arrayBlock(arrayKey, arrayData,
                    IF TypeOf(arrayLabels) = "object" /\ ~IsArray(arrayLabels)
                    THEN arrayLabels
                    ELSE IF IsArray(arrayLabels) /\ Len(arrayLabels.v) > 0
                    THEN arrayLabels.v[1]
                    ELSE Null)

RECURSIVE processBlock(_, _, _)

\* block.nestedBlocks.push(nestedBlock) when processBlock returned one
pushNested(block, nestedBlock) ==
    IF nestedBlock.t = "thrown" THEN Thrown
    ELSE IF Truthy(nestedBlock) THEN [block EXCEPT !.nestedBlocks = Append(@, nestedBlock)]
    ELSE block

\* the body of the loop of processBlock: value is blockData[key]
blockStep(block, key, value, labelInfo) ==
    IF StartsWith(key, <<"_">>) THEN block
    ELSE IF value.t = "undefined" THEN block
    ELSE IF isObject(value) /\ ~IsArray(value)
    THEN (IF TypeOf(labelInfo) = "object"
          THEN pushNested(block, processBlock(key, value, labelInfo))
          ELSE block)
    ELSE IF ~IsArray(value)
    THEN addField(block, key, value, labelInfo, isValidLabel(labelInfo))
    ELSE block

RECURSIVE blockLoop(_, _, _, _, _)
blockLoop(keys, k, blockData, blockLabels, block) ==
    IF k > Len(keys) \/ block.t = "thrown" THEN block
    ELSE blockLoop(keys, k + 1, blockData, blockLabels,
                   blockStep(block, keys[k], Get(blockData, keys[k]),
                             Get(blockLabels, keys[k])))

\* blockOrNull without the test for children
blockAsBuilt(block) == block

\* lines 319-323
blockOrNull(block) ==
    IF block.t = "thrown" THEN Thrown
    ELSE IF Len(block.fields) > 0 \/ Len(block.nestedBlocks) > 0 THEN block
    ELSE Null

\* processBlock with the loop over the keys of the data
processBlockInDataOrder(blockKey, blockData, blockLabels) ==
    IF ~Truthy(blockLabels) \/ TypeOf(blockLabels) # "object" THEN Null
    ELSE blockOrNull(
            blockLoop(ObjectKeys(blockData), 1, blockData, blockLabels,
                      [t |-> "object",
                       id |-> blockKey,
                       title |-> formatBlockTitle(blockKey, blockLabels),
                       isBlock |-> TRUE,
                       isArray |-> FALSE,
                       fields |-> <<>>,
                       nestedBlocks |-> <<>>]))

processBlock(blockKey, blockData, blockLabels) ==
    IF ~Truthy(blockLabels) \/ TypeOf(blockLabels) # "object" THEN Null
    ELSE blockOrNull(
            blockLoop(ObjectKeys(blockLabels), 1, blockData, blockLabels,
                      [t |-> "object",
                       id |-> blockKey,
                       title |-> formatBlockTitle(blockKey, blockLabels),
                       isBlock |-> TRUE,
                       isArray |-> FALSE,
                       fields |-> <<>>,
                       nestedBlocks |-> <<>>]))

\* section.blocks.push(block) when processArray or processBlock returned one
pushBlock(section, block) ==
    IF block.t = "thrown" THEN Thrown
    ELSE IF Truthy(block) THEN [section EXCEPT !.blocks = Append(@, block)]
    ELSE section

\* the body of the loop of processSection: value is sectionData[key]
sectionStep(section, key, value, labelInfo) ==
    IF StartsWith(key, <<"_">>) THEN section
    ELSE IF value.t = "undefined" THEN section
    ELSE IF IsArray(value) THEN pushBlock(section, processArray(key, value, labelInfo))
    ELSE IF isObject(value) THEN pushBlock(section, processBlock(key, value, labelInfo))
    ELSE addField(section, key, value, labelInfo, isValidLabel(labelInfo))

RECURSIVE sectionLoop(_, _, _, _, _)
sectionLoop(keys, k, sectionData, sectionLabels, section) ==
    IF k > Len(keys) \/ section.t = "thrown" THEN section
    ELSE sectionLoop(keys, k + 1, sectionData, sectionLabels,
                     sectionStep(section, keys[k], Get(sectionData, keys[k]),
                                 Get(sectionLabels, keys[k])))

\* lines 255-263
sectionOrNull(section) ==
    IF section.t = "thrown" THEN Thrown
    ELSE IF Len(section.blocks) > 0 \/ Len(section.fields) > 0
    THEN [section EXCEPT !.hasFields = Len(section.fields) > 0,
                         !.hasBlocks = Len(section.blocks) > 0]
    ELSE Null

\* The section carries hasFields, hasBlocks and order from the start; the code
\* adds them to the object later, the last one in processFormData.
processSection(sectionKey, sectionData, sectionLabels) ==
    sectionOrNull(
        sectionLoop(IF Truthy(sectionLabels) THEN ObjectKeys(sectionLabels) ELSE <<>>, 1,
                    sectionData, sectionLabels,
                    [t |-> "object",
                     id |-> sectionKey,
                     title |-> IF Truthy(sectionLabels)
                                  /\ Truthy(Get(sectionLabels, kSectionTitle))
                               THEN Get(sectionLabels, kSectionTitle)
                               ELSE formatSectionTitle(sectionKey),
                     contentId |-> sContentPrefix \o sectionKey,
                     isExpanded |-> TRUE,
                     chevronIcon |-> sChevronDown,
                     blocks |-> <<>>,
                     fields |-> <<>>,
                     hasFields |-> FALSE,
                     hasBlocks |-> FALSE,
                     order |-> 0]))

-----------------------------------------------------------------------------
(* processFormData *)

\* the rank of a section whose label entry carries no numeric _order
DefaultOrder == 999

\* sections.sort((a, b) => a.order - b.order): Array.prototype.sort is stable
RECURSIVE sortByOrder(_)
\* last put into the sorted front, behind the elements that do not come after it
insertLast(front, last) ==
    SubSeq(front, 1, Cardinality({i \in DOMAIN front : front[i].order <= last.order}))
    \o <<last>>
    \o SubSeq(front, Cardinality({i \in DOMAIN front : front[i].order <= last.order}) + 1,
              Len(front))

sortByOrder(sections) ==
    IF Len(sections) <= 1 THEN sections
    ELSE insertLast(sortByOrder(SubSeq(sections, 1, Len(sections) - 1)),
                    sections[Len(sections)])

\* lines 182-184
orderOf(labelInfo) ==
    IF Truthy(labelInfo) /\ TypeOf(Get(labelInfo, kOrder)) = "number"
    THEN Get(labelInfo, kOrder).v
    ELSE DefaultOrder

\* lines 180-186: section is what processSection returned
pushSection(result, section, order) ==
    IF section.t = "thrown" THEN Thrown
    ELSE IF Truthy(section)
    THEN [result EXCEPT !.sections = Append(@, [section EXCEPT !.order = order])]
    ELSE result

\* typeof x === 'string' ? JSON.parse(x) : x
parseIfString(x) == IF x.t = "string" THEN JSONParse(x.v) ELSE x

\* parsedStep without the try and catch around JSON.parse
parsedStepUncaught(result, key, value, labelInfo) ==
    IF value.t = "thrown" THEN Thrown
    ELSE IF ~(isObject(value) /\ ~IsArray(value)) THEN result
    ELSE pushSection(result, processSection(key, value, labelInfo), orderOf(labelInfo))

\* lines 166-187: value is the section's value after JSON.parse, Thrown when the
\* catch block skipped the section
parsedStep(result, key, value, labelInfo) ==
    IF value.t = "thrown" THEN result
    ELSE IF ~(isObject(value) /\ ~IsArray(value)) THEN result
    ELSE pushSection(result, processSection(key, value, labelInfo), orderOf(labelInfo))

\* the body of the loop of processFormData: value is this._formData[key]
formDataStep(result, key, value, labelInfo) ==
    IF \E i \in DOMAIN _skipFields : _skipFields[i] = key THEN result
    ELSE IF value.t \in {"undefined", "null"} THEN result
    ELSE parsedStep(result, key, parseIfString(value), labelInfo)

RECURSIVE formDataLoop(_, _, _, _, _)
formDataLoop(keysToProcess, k, data, labels, result) ==
    IF k > Len(keysToProcess) \/ result.t = "thrown" THEN result
    ELSE formDataLoop(keysToProcess, k + 1, data, labels,
                      formDataStep(result, keysToProcess[k], Get(data, keysToProcess[k]),
                                   Get(labels, keysToProcess[k])))

\* lines 190-193
sortedSections(result) ==
    IF result.t = "thrown" THEN Thrown
    ELSE [result EXCEPT !.sections = sortByOrder(@)]

\* processFormData() with this._formData = data and this._labelData = labels: the
\* value it assigns to processedSections, as the field sections, or Thrown
processFormData(data, labels) ==
    sortedSections(
        formDataLoop(IF Truthy(labels) THEN ObjectKeys(labels) ELSE <<>>, 1, data, labels,
                     [t |-> "object", sections |-> <<>>]))

-----------------------------------------------------------------------------
(* initializeData *)

kFormData == <<"f","o","r","m","D","a","t","a">>
kReviewData == <<"r","e","v","i","e","w","D","a","t","a">>
kLabelData == <<"l","a","b","e","l","D","a","t","a">>
kLabels == <<"l","a","b","e","l","s">>
kFieldLabels == <<"f","i","e","l","d","L","a","b","e","l","s">>
sNoFormData == <<"N","o"," ","f","o","r","m"," ","d","a","t","a"," ","p","r","o","v","i","d","e","d",".">>
sErrorProcessing == <<"E","r","r","o","r"," ","p","r","o","c","e","s","s","i","n","g"," ","f","o","r","m"," ","d","a","t","a",":"," ">>
\* error.message of a caught SyntaxError or TypeError: a text of the engine
sErrorMessage == <<"<error.message>">>

\* lines 93-95: this._formData after the omniJsonData branch
omniFormData ==
    IF Truthy(omniJsonData)
    THEN OrElse(Get(omniJsonData, kFormData),
                OrElse(Get(omniJsonData, kReviewData), omniJsonData))
    ELSE _formData

\* lines 104-113: a label source that is a string is parsed, and is {} when
\* JSON.parse throws
parsedLabelSource(labelSource, parsed) ==
    IF labelSource.t # "string" THEN labelSource
    ELSE IF parsed.t = "thrown" THEN Obj(<<>>)
    ELSE parsed

labelSourceData(labelSource) ==
    parsedLabelSource(labelSource, parseIfString(labelSource))

\* lines 98-113: this._labelData after the omniJsonData branch
omniLabelData ==
    IF Truthy(omniJsonData)
    THEN labelSourceData(OrElse(Get(omniJsonData, kLabelData),
                         OrElse(Get(omniJsonData, kLabels),
                         OrElse(Get(omniJsonData, kFieldLabels), Obj(<<>>)))))
    ELSE _labelData

\* the catch block without its last line: isLoading is left as line 81 set it
initializeFailedLoading ==
    /\ hasError' = TRUE
    /\ errorMessage' = sErrorProcessing \o sErrorMessage
    /\ isLoading' = TRUE

\* the catch block of initializeData
initializeFailed ==
    /\ hasError' = TRUE
    /\ errorMessage' = sErrorProcessing \o sErrorMessage
    /\ isLoading' = FALSE

\* lines 129-136 with this._formData truthy: result is what processFormData gave
processed(result) ==
    IF result.t = "thrown"
    THEN /\ UNCHANGED processedSections
         /\ initializeFailed
    ELSE /\ processedSections' = result.sections
         /\ hasError' = FALSE
         /\ errorMessage' = <<>>
         /\ isLoading' = FALSE

\* lines 116-142: data and labels are this._formData and this._labelData after
\* the overrides by the formData and labelData properties, Thrown when JSON.parse
\* threw; omniData and omniLabels are what lines 86-114 left in them
initializeWith(data, labels, omniData, omniLabels) ==
    IF data.t = "thrown"
    THEN /\ _formData' = omniData
         /\ _labelData' = omniLabels
         /\ UNCHANGED processedSections
         /\ initializeFailed
    ELSE IF labels.t = "thrown"
    THEN /\ _formData' = data
         /\ _labelData' = omniLabels
         /\ UNCHANGED processedSections
         /\ initializeFailed
    ELSE /\ _formData' = data
         /\ _labelData' = labels
         /\ IF ~Truthy(data)
            THEN /\ hasError' = TRUE
                 /\ errorMessage' = sNoFormData
                 /\ isLoading' = FALSE
                 /\ UNCHANGED processedSections
            ELSE processed(processFormData(data, labels))

initializeData ==
    /\ _isInitialized' = TRUE
    /\ initializeWith(IF Truthy(formData) THEN parseIfString(formData) ELSE omniFormData,
                      IF Truthy(labelData) THEN parseIfString(labelData) ELSE omniLabelData,
                      omniFormData, omniLabelData)

-----------------------------------------------------------------------------
(* Lifecycle *)

connectedCallback ==
    IF Truthy(omniJsonData) \/ Truthy(formData)
    THEN /\ initializeData
         /\ UNCHANGED <<omniJsonData, formData, labelData, hideEmptyFields,
                        collapsibleSections, _skipFields, _lastOmniDataHash>>
    ELSE UNCHANGED vars

\* lines 60-72: the hash is kept as the string JSON.stringify gave
renderedCallback ==
    IF Truthy(omniJsonData)
    THEN IF _lastOmniDataHash # Str(Stringify(omniJsonData))
         THEN /\ _lastOmniDataHash' = Str(Stringify(omniJsonData))
              /\ initializeData
              /\ UNCHANGED <<omniJsonData, formData, labelData, hideEmptyFields,
                             collapsibleSections, _skipFields>>
         ELSE UNCHANGED vars
    ELSE IF ~_isInitialized /\ Truthy(formData)
    THEN /\ initializeData
         /\ UNCHANGED <<omniJsonData, formData, labelData, hideEmptyFields,
                        collapsibleSections, _skipFields, _lastOmniDataHash>>
    ELSE UNCHANGED vars

RECURSIVE splitFrom(_, _, _)
\* value.split(','): parts are the pieces before the last comma read, piece the
\* characters read since
splitFrom(s, piece, parts) ==
    IF s = <<>> THEN Append(parts, piece)
    ELSE IF Head(s) = "," THEN splitFrom(Tail(s), <<>>, Append(parts, piece))
    ELSE splitFrom(Tail(s), Append(piece, Head(s)), parts)

\* .map(f => f.trim()).filter(f => f)
trimmedParts(parts) ==
    SelectSeq([i \in DOMAIN parts |-> Trim(parts[i])], LAMBDA f : f # <<>>)

\* lines 25-31, the setter of skipFieldsList: _skipFields holds the keys as
\* strings; an array is an array of strings
skipFieldsList(value) ==
    /\ _skipFields' =
          IF TypeOf(value) = "string" THEN trimmedParts(splitFrom(value.v, <<>>, <<>>))
          ELSE IF IsArray(value) THEN [i \in DOMAIN value.v |-> value.v[i].v]
          ELSE _skipFields
    /\ UNCHANGED <<omniJsonData, formData, labelData, hideEmptyFields, collapsibleSections,
                   processedSections, isLoading, hasError, errorMessage, _formData,
                   _labelData, _lastOmniDataHash, _isInitialized>>

\* the host assigns the @api property omniJsonData
SetOmniJsonData(value) ==
    /\ omniJsonData' = value
    /\ UNCHANGED <<formData, labelData, hideEmptyFields, collapsibleSections, _skipFields,
                   processedSections, isLoading, hasError, errorMessage, _formData,
                   _labelData, _lastOmniDataHash, _isInitialized>>

\* the host assigns the @api property formData
SetFormData(value) ==
    /\ formData' = value
    /\ UNCHANGED <<omniJsonData, labelData, hideEmptyFields, collapsibleSections,
                   _skipFields, processedSections, isLoading, hasError, errorMessage,
                   _formData, _labelData, _lastOmniDataHash, _isInitialized>>

\* the host assigns the @api property labelData
SetLabelData(value) ==
    /\ labelData' = value
    /\ UNCHANGED <<omniJsonData, formData, hideEmptyFields, collapsibleSections,
                   _skipFields, processedSections, isLoading, hasError, errorMessage,
                   _formData, _labelData, _lastOmniDataHash, _isInitialized>>

\* toggleSection with the chevron taken from the state before the flip
toggleSectionStaleChevron(sectionId) ==
    /\ processedSections' =
          [i \in DOMAIN processedSections |->
              IF processedSections[i].id = sectionId
              THEN [processedSections[i] EXCEPT
                      !.isExpanded = ~@,
                      !.chevronIcon = IF processedSections[i].isExpanded
                                      THEN sChevronDown ELSE sChevronRight]
              ELSE processedSections[i]]
    /\ UNCHANGED <<omniJsonData, formData, labelData, hideEmptyFields, collapsibleSections,
                   _skipFields, isLoading, hasError, errorMessage, _formData, _labelData,
                   _lastOmniDataHash, _isInitialized>>

\* lines 693-705
toggleSection(sectionId) ==
    /\ processedSections' =
          [i \in DOMAIN processedSections |->
              IF processedSections[i].id = sectionId
              THEN [processedSections[i] EXCEPT
                      !.isExpanded = ~@,
                      !.chevronIcon = IF ~processedSections[i].isExpanded
                                      THEN sChevronDown ELSE sChevronRight]
              ELSE processedSections[i]]
    /\ UNCHANGED <<omniJsonData, formData, labelData, hideEmptyFields, collapsibleSections,
                   _skipFields, isLoading, hasError, errorMessage, _formData, _labelData,
                   _lastOmniDataHash, _isInitialized>>

\* lines 674-677: sectionId is event.currentTarget.dataset.sectionId
handleSectionToggle(sectionId) == toggleSection(sectionId)

sEnter == <<"E","n","t","e","r">>
sSpace == <<" ">>

\* lines 682-688: key is event.key
handleSectionKeydown(key, sectionId) ==
    IF key = sEnter \/ key = sSpace THEN toggleSection(sectionId) ELSE UNCHANGED vars

\* the state of a component that has just been constructed with the properties
\* the host page gives it
Constructed(omni, data, labels, hide, skip) ==
    /\ omniJsonData = omni
    /\ formData = data
    /\ labelData = labels
    /\ hideEmptyFields = hide
    /\ collapsibleSections = FALSE
    /\ _skipFields = skip
    /\ processedSections = <<>>
    /\ isLoading = TRUE
    /\ hasError = FALSE
    /\ errorMessage = <<>>
    /\ _formData = Null
    /\ _labelData = Null
    /\ _lastOmniDataHash = Null
    /\ _isInitialized = FALSE

-----------------------------------------------------------------------------
(* The documents of the tree specification *)

\* the number of sections of the documents that vary _order
NumSections == 3
\* the longest array of the documents that vary an array block
MaxRows == 2

kA == <<"a">>
kB == <<"b">>
kN == <<"n">>
kM == <<"m">>
kStep1 == <<"S","t","e","p","1">>
kBlock1 == <<"B","l","o","c","k","1">>
kInner == <<"I","n","n","e","r">>
kItems == <<"I","t","e","m","s">>
sX == <<"x">>
sLabelSuffix == <<" ","L","a","b","e","l">>
SectionNames == <<<<"A">>, <<"B">>, <<"C">>, <<"D">>, <<"E">>>>

\* the label text of a key: 'A Label' for a
LabelText(key) == <<ToUpperChar(key[1])>> \o Tail(key) \o sLabelSuffix

\* the sequences of distinct elements of a set of keys
Arrangements(keys) ==
    UNION {{s \in [1..n -> keys] : \A i, j \in 1..n : i # j => s[i] # s[j]} :
           n \in 0..Cardinality(keys)}

\* the objects that give each key of an arrangement one of the values
ObjectsOver(keys, Values(_)) ==
    UNION {{Obj([i \in DOMAIN ar |-> <<ar[i], vs[i]>>]) :
               vs \in {f \in [DOMAIN ar -> UNION {Values(k) : k \in keys}] :
                          \A i \in DOMAIN ar : f[i] \in Values(ar[i])}} :
           ar \in Arrangements(keys)}

FieldValues(key) == {Str(sX), Str(<<>>), Null}

\* a string label, an object label, and a label entry that labels nothing
FieldLabels(key) ==
    {Str(LabelText(key)), Obj(<< <<kLabel, Str(LabelText(key))>> >>), Num(7)}

FieldData == ObjectsOver({kA, kB}, FieldValues)
FieldLabelObjs == ObjectsOver({kA, kB}, FieldLabels)

One(key, value) == Obj(<< <<key, value>> >>)

Input(data, labels, hide, skip) ==
    [data |-> data, labels |-> labels, hide |-> hide, skip |-> skip]

\* one section of fields
FieldInputs ==
    {Input(One(kStep1, d), One(kStep1, l), h, <<>>) :
        d \in FieldData, l \in FieldLabelObjs, h \in BOOLEAN}

\* one section of one block, and one section of one block of one nested block; a
\* string label over the block is a shape mismatch
BlockInputs ==
    {Input(One(kStep1, One(kBlock1, d)), One(kStep1, One(kBlock1, l)), h, <<>>) :
        d \in FieldData, l \in FieldLabelObjs \cup {Str(LabelText(kBlock1))}, h \in BOOLEAN}
    \cup
    {Input(One(kStep1, One(kBlock1, One(kInner, d))),
           One(kStep1, One(kBlock1, One(kInner, l))), h, <<>>) :
        d \in FieldData, l \in FieldLabelObjs, h \in BOOLEAN}

sNumber1 == <<"N","u","m","b","e","r">>
sRows == <<"R","o","w","s">>
sY == <<"y">>
sS == <<"S">>
sB == <<"B">>
sNotJson == <<"{","o","o","p","s">>

ItemLabelText(key) == IF key = kN THEN sNumber1 ELSE LabelText(key)

\* the elements of the arrays: mappings, one of them empty, and a number
ItemPool ==
    {One(kN, Num(1)),
     Obj(<< <<kN, Num(2)>>, <<kM, Str(sX)>> >>),
     Obj(<< <<kM, Str(<<>>)>>, <<kN, Num(3)>> >>),
     One(kM, Str(<<>>)),
     Obj(<<>>),
     Num(5)}

ArrayData == {Arr(<<>>)} \cup UNION {{Arr(s) : s \in [1..n -> ItemPool]} : n \in 1..MaxRows}

\* the item schemas: a mapping, an array whose first element is a mapping, and a
\* string label, which is a shape mismatch
ItemLabels ==
    {One(kN, Str(ItemLabelText(kN))),
     Obj(<< <<kN, Str(ItemLabelText(kN))>>, <<kM, Str(ItemLabelText(kM))>> >>),
     Obj(<< <<kM, Str(ItemLabelText(kM))>>, <<kN, Str(ItemLabelText(kN))>> >>),
     Obj(<< <<kBlockTitle, Str(sRows)>>,
            <<kN, One(kLabel, Str(ItemLabelText(kN)))>> >>),
     Arr(<<One(kN, Str(ItemLabelText(kN)))>>),
     Str(LabelText(kItems))}

\* one section of one array
ArrayInputs ==
    {Input(One(kStep1, One(kItems, d)), One(kStep1, One(kItems, l)), h, <<>>) :
        d \in ArrayData, l \in ItemLabels, h \in BOOLEAN}

\* the _order entries of a section's label entry: none, and numbers
OrderChoices == {Undefined, Num(1), Num(2), Num(1000)}

Orderings(n) == {p \in [1..n -> 1..n] : \A i, j \in 1..n : i # j => p[i] # p[j]}

OrderedLabel(order) ==
    Obj((IF order = Undefined THEN <<>> ELSE << <<kOrder, order>> >>)
        \o << <<kA, Str(LabelText(kA))>> >>)

\* NumSections sections of one field each, the label document lists them in the
\* order p and gives them the _order entries o
OrderInput(p, o, skip) ==
    Input(Obj([i \in 1..NumSections |-> <<SectionNames[i], One(kA, Str(sX))>>]),
          Obj([i \in 1..NumSections |-> <<SectionNames[p[i]], OrderedLabel(o[p[i]])>>]),
          FALSE, skip)

\* every order of the label document with every choice of _order entries, and
\* every order of it with a section in the skip list
OrderInputs ==
    {OrderInput(p, o, <<>>) :
        p \in Orderings(NumSections), o \in [1..NumSections -> OrderChoices]}
    \cup
    {OrderInput(p, [i \in 1..NumSections |-> Undefined], <<SectionNames[2]>>) :
        p \in Orderings(NumSections)}

\* a section of two fields, a block and an array
MixedData(a, b) ==
    One(kStep1, Obj(<< <<kB, b>>, <<kItems, Arr(<<One(kN, Num(1)), One(kN, Num(2))>>)>>,
                       <<kBlock1, Obj(<< <<kB, Str(sY)>>, <<kA, a>> >>)>>, <<kA, a>> >>))
MixedLabels(labelA) ==
    One(kStep1, Obj(<< <<kSectionTitle, Str(sS)>>,
                       <<kA, labelA>>,
                       <<kBlock1, Obj(<< <<kBlockTitle, Str(sB)>>, <<kA, labelA>>,
                                         <<kB, Str(LabelText(kB))>> >>)>>,
                       <<kB, Str(LabelText(kB))>>,
                       <<kItems, One(kN, Str(ItemLabelText(kN)))>> >>))

kToString == <<"t","o","S","t","r","i","n","g">>

\* documents given as objects and as JSON texts, a section given as a JSON text,
\* texts that are no JSON, a null label entry, a null array element, no data, an
\* _order that is a string, a label key that names an inherited member
MixedInputs ==
    {Input(MixedData(a, b), MixedLabels(Str(LabelText(kA))), h, <<>>) :
        a \in {Str(sX), Str(<<>>)}, b \in {Str(sX), Str(<<>>)}, h \in BOOLEAN}
    \cup
    {Input(Str(Stringify(MixedData(Str(sX), Str(sX)))),
           Str(Stringify(MixedLabels(Str(LabelText(kA))))), h, <<>>) : h \in BOOLEAN}
    \cup
    {Input(One(kStep1, Str(Stringify(One(kA, Str(sX))))), One(kStep1, l), FALSE, <<>>) :
        l \in FieldLabelObjs}
    \cup
    {Input(Obj(<< <<SectionNames[1], Str(sNotJson)>>, <<SectionNames[2], One(kA, Str(sX))>> >>),
           Obj(<< <<SectionNames[1], OrderedLabel(Undefined)>>,
                  <<SectionNames[2], OrderedLabel(Undefined)>> >>), FALSE, <<>>),
     Input(Str(sNotJson), One(kStep1, OrderedLabel(Undefined)), FALSE, <<>>),
     Input(One(kStep1, One(kA, Str(sX))), Str(sNotJson), FALSE, <<>>),
     Input(MixedData(Str(sX), Str(sX)), MixedLabels(Null), FALSE, <<>>),
     Input(One(kStep1, One(kItems, Arr(<<One(kN, Num(1)), Null>>))),
           One(kStep1, One(kItems, One(kN, Str(ItemLabelText(kN))))), FALSE, <<>>),
     Input(Undefined, One(kStep1, OrderedLabel(Undefined)), FALSE, <<>>),
     Input(Obj(<< <<SectionNames[1], One(kA, Str(sX))>>, <<SectionNames[2], One(kA, Str(sX))>> >>),
           Obj(<< <<SectionNames[1], OrderedLabel(Str(<<"1">>))>>,
                  <<SectionNames[2], OrderedLabel(Num(2))>> >>), FALSE, <<>>),
     Input(One(kStep1, One(kA, Str(sX))),
           One(kStep1, Obj(<< <<kA, Str(LabelText(kA))>>,
                              <<kToString, Str(LabelText(kToString))>> >>)), FALSE, <<>>),
     Input(One(kStep1, One(kA, Str(sX))), Undefined, FALSE, <<>>)}

\* a value and a label entry whose shapes do not match: a string label over a
\* mapping, a null, a number and a mapping without a label text over a scalar, an
\* array that holds a null or a number, a null and a string over a mapping and
\* over an array
MismatchPairs ==
    {<<One(kB, Str(sX)), Str(LabelText(kA))>>,
     <<Str(sX), Null>>,
     <<Str(sX), Num(7)>>,
     <<Str(sX), One(kType, Str(sText))>>,
     <<Str(sX), One(kLabel, Str(<<>>))>>,
     <<Arr(<<One(kN, Num(1)), Null>>), One(kN, Str(ItemLabelText(kN)))>>,
     <<Arr(<<Null, One(kN, Num(1))>>), One(kN, Str(ItemLabelText(kN)))>>,
     <<Arr(<<One(kN, Num(1)), Num(5)>>), One(kN, Str(ItemLabelText(kN)))>>,
     <<One(kB, Str(sX)), Null>>,
     <<Arr(<<One(kN, Num(1))>>), Null>>,
     <<Arr(<<One(kN, Num(1))>>), Str(LabelText(kA))>>}

\* the container of the mismatch: the entry a next to a well-formed field b, the
\* label document lists a first or last
MismatchData(pair) == Obj(<< <<kA, pair[1]>>, <<kB, Str(sX)>> >>)
MismatchLabels(pair, first) ==
    IF first THEN Obj(<< <<kA, pair[2]>>, <<kB, Str(LabelText(kB))>> >>)
    ELSE Obj(<< <<kB, Str(LabelText(kB))>>, <<kA, pair[2]>> >>)

\* the mismatch directly under a section, and inside a block
MismatchInputs ==
    {Input(One(kStep1, MismatchData(pair)), One(kStep1, MismatchLabels(pair, first)),
           h, <<>>) :
        pair \in MismatchPairs, first \in BOOLEAN, h \in BOOLEAN}
    \cup
    {Input(One(kStep1, One(kBlock1, MismatchData(pair))),
           One(kStep1, One(kBlock1, MismatchLabels(pair, first))), h, <<>>) :
        pair \in MismatchPairs, first \in BOOLEAN, h \in BOOLEAN}

\* texts that are no JSON
BadTexts == {sNotJson, sX, <<>>}

\* NumSections sections of one field each, the section at place bad given as a
\* text that is no JSON; the label document lists them in the order p, without
\* _order entries or with the places of the sections as _order entries
BadSectionInput(p, bad, text, ordered) ==
    Input(Obj([i \in 1..NumSections |->
                 <<SectionNames[i], IF i = bad THEN Str(text) ELSE One(kA, Str(sX))>>]),
          Obj([i \in 1..NumSections |->
                 <<SectionNames[p[i]],
                   OrderedLabel(IF ordered THEN Num(p[i]) ELSE Undefined)>>]),
          FALSE, <<>>)

BadSectionInputs ==
    {BadSectionInput(p, bad, text, ordered) :
        p \in Orderings(NumSections), bad \in 1..NumSections, text \in BadTexts,
        ordered \in BOOLEAN}

\* a section of a field, of a block with a field and a nested block, and of an
\* array
NestedData ==
    One(kStep1, Obj(<< <<kA, Str(sX)>>,
                       <<kBlock1, Obj(<< <<kA, Str(sX)>>, <<kInner, One(kA, Str(sX))>> >>)>>,
                       <<kItems, Arr(<<One(kN, Num(1))>>)>> >>))
NestedLabels ==
    One(kStep1, Obj(<< <<kA, Str(LabelText(kA))>>,
                       <<kBlock1, Obj(<< <<kA, Str(LabelText(kA))>>,
                                         <<kInner, One(kA, Str(LabelText(kA)))>> >>)>>,
                       <<kItems, One(kN, Str(ItemLabelText(kN)))>> >>))

\* the skip lists: nothing, each key of the documents, and two keys
SkipLists ==
    {<<>>, <<kA, kN>>} \cup {<<k>> : k \in {kStep1, kA, kBlock1, kInner, kItems, kN}}

SkipInputs == {Input(NestedData, NestedLabels, h, skip) : h \in BOOLEAN, skip \in SkipLists}

kMeta == <<"_","m","e","t","a">>
sMeta == <<"M","e","t","a">>

\* a container of the value v under the key _meta and of the value x under a,
\* with a label entry for both
MetaData(v) == Obj(<< <<kMeta, v>>, <<kA, Str(sX)>> >>)
MetaLabels(l) == Obj(<< <<kMeta, l>>, <<kA, Str(LabelText(kA))>> >>)

\* the key _meta with data and a label entry at each level: a section, a field
\* and a block of a section, a field and a nested block of a block, a field of
\* an array row
MetaKeyInputs ==
    {Input(Obj(<< <<kMeta, One(kA, Str(sX))>>, <<kStep1, One(kA, Str(sX))>> >>),
           Obj(<< <<kMeta, One(kA, Str(LabelText(kA)))>>,
                  <<kStep1, One(kA, Str(LabelText(kA)))>> >>), h, <<>>) : h \in BOOLEAN}
    \cup
    {Input(One(kStep1, MetaData(v[1])), One(kStep1, MetaLabels(v[2])), h, <<>>) :
        v \in {<<Str(sX), Str(sMeta)>>, <<One(kA, Str(sX)), One(kA, Str(LabelText(kA)))>>,
               <<Arr(<<One(kN, Num(1))>>), One(kN, Str(ItemLabelText(kN)))>>},
        h \in BOOLEAN}
    \cup
    {Input(One(kStep1, One(kBlock1, MetaData(v[1]))),
           One(kStep1, One(kBlock1, MetaLabels(v[2]))), h, <<>>) :
        v \in {<<Str(sX), Str(sMeta)>>, <<One(kA, Str(sX)), One(kA, Str(LabelText(kA)))>>},
        h \in BOOLEAN}
    \cup
    {Input(One(kStep1, One(kItems, Arr(<<MetaData(Num(1)), MetaData(Num(2))>>))),
           One(kStep1, One(kItems, MetaLabels(Str(sMeta)))), h, <<>>) : h \in BOOLEAN}

kBlock2 == <<"B","l","o","c","k","2">>

\* the _order entries of the label entry of a block
BlockOrderChoices == {Undefined, Num(1), Num(2)}

\* a container of the blocks Block1 and Block2 of one field each
TwoBlocksData == Obj(<< <<kBlock1, One(kA, Str(sX))>>, <<kBlock2, One(kA, Str(sX))>> >>)
\* its label entry: the blocks carry the _order entries o1 and o2, and Block2 is
\* listed first or last
TwoBlocksLabels(o1, o2, swapped) ==
    IF swapped
    THEN Obj(<< <<kBlock2, OrderedLabel(o2)>>, <<kBlock1, OrderedLabel(o1)>> >>)
    ELSE Obj(<< <<kBlock1, OrderedLabel(o1)>>, <<kBlock2, OrderedLabel(o2)>> >>)

\* two blocks of a section, and two nested blocks of a block
BlockOrderInputs ==
    {Input(One(kStep1, TwoBlocksData), One(kStep1, TwoBlocksLabels(o1, o2, sw)),
           FALSE, <<>>) :
        o1 \in BlockOrderChoices, o2 \in BlockOrderChoices, sw \in BOOLEAN}
    \cup
    {Input(One(kStep1, One(kInner, TwoBlocksData)),
           One(kStep1, One(kInner, TwoBlocksLabels(o1, o2, sw))), FALSE, <<>>) :
        o1 \in BlockOrderChoices, o2 \in BlockOrderChoices, sw \in BOOLEAN}

\* a container of a field and of an array of rows under the key Items
WithItemsData(rows) == Obj(<< <<kA, Str(sX)>>, <<kItems, Arr(rows)>> >>)
\* its label entry: the item schema given as a mapping, or as an array of one
WithItemsLabels(bracketed) ==
    Obj(<< <<kA, Str(LabelText(kA))>>,
           <<kItems, IF bracketed THEN Arr(<<One(kN, Str(ItemLabelText(kN)))>>)
                     ELSE One(kN, Str(ItemLabelText(kN)))>> >>)

ItemRows == {<<One(kN, Num(1))>>, <<One(kN, Num(1)), One(kN, Num(2))>>}

\* an array next to a field: under a section, inside a block, and inside a
\* nested block that stands next to a field of the block
ArrayInBlockInputs ==
    {Input(One(kStep1, WithItemsData(rows)), One(kStep1, WithItemsLabels(br)), h, <<>>) :
        rows \in ItemRows, br \in BOOLEAN, h \in BOOLEAN}
    \cup
    {Input(One(kStep1, One(kBlock1, WithItemsData(rows))),
           One(kStep1, One(kBlock1, WithItemsLabels(br))), h, <<>>) :
        rows \in ItemRows, br \in BOOLEAN, h \in BOOLEAN}
    \cup
    {Input(One(kStep1, One(kBlock1, Obj(<< <<kA, Str(sX)>>,
                                           <<kInner, WithItemsData(rows)>> >>))),
           One(kStep1, One(kBlock1, Obj(<< <<kA, Str(LabelText(kA))>>,
                                           <<kInner, WithItemsLabels(br)>> >>))), h, <<>>) :
        rows \in ItemRows, br \in BOOLEAN, h \in BOOLEAN}

\* a JSON text of a mapping or of an array, and a label entry for it: a mapping
\* of the labels of its fields, the same with a label text of its own, and an
\* item schema
EncodedPairs ==
    {<<Str(Stringify(One(kB, Str(sX)))), One(kB, Str(LabelText(kB)))>>,
     <<Str(Stringify(One(kB, Str(sX)))),
       Obj(<< <<kLabel, Str(LabelText(kA))>>, <<kB, Str(LabelText(kB))>> >>)>>,
     <<Str(Stringify(Arr(<<One(kN, Num(1))>>))), One(kN, Str(ItemLabelText(kN)))>>}

\* the container of the text: the entry Block1 next to the field a
EncodedData(pair) == Obj(<< <<kA, Str(sX)>>, <<kBlock1, pair[1]>> >>)
EncodedLabels(pair) == Obj(<< <<kA, Str(LabelText(kA))>>, <<kBlock1, pair[2]>> >>)

\* the text under a section, and inside a block
EncodedInputs ==
    {Input(One(kStep1, EncodedData(pair)), One(kStep1, EncodedLabels(pair)), h, <<>>) :
        pair \in EncodedPairs, h \in BOOLEAN}
    \cup
    {Input(One(kStep1, One(kInner, EncodedData(pair))),
           One(kStep1, One(kInner, EncodedLabels(pair))), h, <<>>) :
        pair \in EncodedPairs, h \in BOOLEAN}

TreeInputs ==
    FieldInputs \cup BlockInputs \cup ArrayInputs \cup OrderInputs \cup MixedInputs
    \cup MismatchInputs \cup BadSectionInputs \cup SkipInputs \cup MetaKeyInputs
    \cup BlockOrderInputs \cup ArrayInBlockInputs \cup EncodedInputs

InitTree ==
    \E in \in TreeInputs : Constructed(Undefined, in.data, in.labels, in.hide, in.skip)

NextTree == connectedCallback

\* the component connected once to a page that gives it formData and labelData
SpecTree == InitTree /\ [][NextTree]_vars

-----------------------------------------------------------------------------
(* The documents of the field specification: one section of one field *)

\* the most words a key is made of
MaxKeyTokens == 2
\* the most digits of a telephone number
MaxPhoneDigits == 12

kName == <<"n","a","m","e">>
kEmail == <<"e","m","a","i","l">>
kHomePhone == <<"h","o","m","e","P","h","o","n","e">>
kTotalCost == <<"t","o","t","a","l","C","o","s","t">>
kStartDate == <<"s","t","a","r","t","D","a","t","e">>
sBadge == <<"b","a","d","g","e">>
sLabel == <<"L","a","b","e","l">>

\* the words of the keys
KeyTokens == {<<"e","m","a","i","l">>, <<"E","m","a","i","l">>, <<"p","h","o","n","e">>, <<"T","e","l">>, <<"a","m","o","u","n","t">>,
              <<"b","u","d","g","e","t">>, <<"C","o","s","t">>, <<"p","r","i","c","e">>, <<"d","a","t","e">>, kName}

RECURSIVE Concat(_)
Concat(words) == IF words = <<>> THEN <<>> ELSE Head(words) \o Concat(Tail(words))

\* the keys of up to MaxKeyTokens words
TokenKeys == UNION {{Concat(w) : w \in [1..n -> KeyTokens]} : n \in 1..MaxKeyTokens}

sIso == <<"2","0","2","6","-","1","2","-","3","1">>
sIsoRollover == <<"2","0","2","3","-","0","2","-","2","9">>
sTrueUpper == <<"T","R","U","E">>
sYesUpper == <<"Y","E","S">>
sAddress == <<" ","A","@","B",".","c"," ">>
sDigits15000 == <<"1","5","0","0","0">>

DetectValues == {Bool(TRUE), Bool(FALSE), Str(sX), Str(sIso), Str(sIsoRollover), Num(5), Null}

\* a label entry of the object form
LabelObject(type, colspan) ==
    Obj(<< <<kLabel, Str(sLabel)>> >>
        \o (IF type = Undefined THEN <<>> ELSE << <<kType, type>> >>)
        \o (IF colspan = Undefined THEN <<>> ELSE << <<kColspan, colspan>> >>))

FieldInput(key, value, labelInfo) ==
    Input(One(kStep1, One(key, value)), One(kStep1, One(key, labelInfo)), FALSE, <<>>)

\* a string label over every key: the type is detected
DetectInputs == {FieldInput(k, v, Str(sLabel)) : k \in TokenKeys, v \in DetectValues}

TypedKeys == {kName, kEmail, kHomePhone, kTotalCost, kStartDate}

\* the type entries: the six types, text, an unknown type, and no type
TypeChoices ==
    {Str(sBoolean), Str(sCurrency), Str(sPhone), Str(sEmail), Str(sDate), Str(sNumber),
     Str(sText), Str(sBadge), Str(<<>>), Null, Undefined}

TypedValues ==
    {Bool(TRUE), Bool(FALSE), Str(sX), Str(sTrue), Str(sTrueUpper), Str(sYesUpper),
     Str(sNoLower), Str(sAddress), Num(1234567), Num(-5), Num(0), Str(sIso),
     Str(sDigits15000), Null, Str(<<>>)}

\* new Date(value) on a string that is no YYYY-MM-DD and has a digit is left to the
\* engine: such values are not given to a field formatted as a date
EngineParsed(key, type, value) ==
    /\ value.t = "string"
    /\ ~IsIsoDate(value.v)
    /\ \E i \in DOMAIN value.v : IsDigit(value.v[i])
    /\ (type = Str(sDate) \/ (~Truthy(type) /\ Includes(ToLowerCase(key), sDate)))

\* an object label with a type over a few keys
TypedInputs ==
    {FieldInput(k, v, LabelObject(t, Undefined)) :
        <<k, t, v>> \in {x \in TypedKeys \X TypeChoices \X TypedValues :
                            ~EngineParsed(x[1], x[2], x[3])}}

ColspanChoices ==
    {Undefined, Num(0), Num(1), Num(5), Num(12), Num(13), Num(-3), Str(<<"6">>), Null,
     Bool(TRUE)}

\* an object label with a colspan
ColspanInputs ==
    {FieldInput(kName, v, LabelObject(t, c)) :
        v \in {Str(sX), Num(7)}, t \in {Undefined, Str(sNumber)}, c \in ColspanChoices}

\* n digits, the first one given
PhoneDigits(n, first) == [i \in 1..n |-> IF i = 1 THEN first ELSE Digits[(i % 10) + 1]]

RECURSIVE Dashed(_)
Dashed(d) ==
    IF Len(d) <= 3 THEN d ELSE SubSeq(d, 1, 3) \o <<"-">> \o Dashed(SubSeq(d, 4, Len(d)))

sPhoneExample == <<"8","7","4","5","6","3","8","7","6","5">>

\* telephone numbers as digits and with punctuation, and as numbers
PhoneValues ==
    {Str(PhoneDigits(n, f)) : n \in 0..MaxPhoneDigits, f \in {"1", "2"}}
    \cup {Str(<<"+">> \o Dashed(PhoneDigits(n, f))) : n \in 0..MaxPhoneDigits, f \in {"1", "2"}}
    \cup {Num(0), Num(5550123), Num(2025550123), Num(-2025550123), Num(1234567890)}
    \cup {Str(sPhoneExample)}

PhoneInputs ==
    {FieldInput(kHomePhone, v, Str(sLabel)) : v \in PhoneValues}
    \cup {FieldInput(kName, v, LabelObject(Str(sPhone), Undefined)) : v \in PhoneValues}

FieldSpecInputs == DetectInputs \cup TypedInputs \cup ColspanInputs \cup PhoneInputs

InitField ==
    \E in \in FieldSpecInputs : Constructed(Undefined, in.data, in.labels, in.hide, in.skip)

NextField == connectedCallback

\* the component connected once to a page that gives it one field
SpecField == InitField /\ [][NextField]_vars

-----------------------------------------------------------------------------
(* The documents of the OmniScript specification: the component is given   *)
(* omniJsonData, formData and labelData, is connected and is rendered.     *)

sEmptyObject == <<"{", "}">>

\* one section of one field with the value v
OmniDoc(v) == One(kStep1, One(kA, Str(v)))
\* its label document, with the label text of the key
OmniLabelDoc(key) == One(kStep1, One(kA, Str(LabelText(key))))

JsonText(x) == Str(Stringify(x))

\* the entries of the wrapper that hold the data: none (the wrapper is the data
\* document itself, with the section at its root), formData and reviewData as a
\* mapping, as a JSON text and as a text that is no JSON, and both of them
OmniDataEntries ==
    {<< <<kStep1, One(kA, Str(sX))>> >>,
     << <<kFormData, OmniDoc(sX)>> >>,
     << <<kFormData, JsonText(OmniDoc(sX))>> >>,
     << <<kFormData, Str(sNotJson)>> >>,
     << <<kReviewData, OmniDoc(sX)>> >>,
     << <<kReviewData, JsonText(OmniDoc(sX))>> >>,
     << <<kReviewData, OmniDoc(sX)>>, <<kFormData, OmniDoc(sY)>> >>}

\* the entries of the wrapper that hold the labels: none, each of the three keys
\* as a mapping, as a JSON text and as a text that is no JSON, and two of them
OmniLabelEntries ==
    {<<>>,
     << <<kLabels, OmniLabelDoc(kB)>>, <<kLabelData, OmniLabelDoc(kA)>> >>,
     << <<kFieldLabels, OmniLabelDoc(kB)>>, <<kLabels, OmniLabelDoc(kA)>> >>}
    \cup {<< <<k, l>> >> :
            k \in {kLabelData, kLabels, kFieldLabels},
            l \in {OmniLabelDoc(kA), JsonText(OmniLabelDoc(kA)), Str(sNotJson)}}

OmniWrappers ==
    {Undefined, Obj(<<>>)}
    \cup {Obj(l \o d) : d \in OmniDataEntries, l \in OmniLabelEntries}

\* the formData property: absent, a mapping, a JSON text, a text that is no JSON,
\* and the texts and the mapping of a document that is empty
FormDataProperties ==
    {Undefined, OmniDoc(sY), JsonText(OmniDoc(sY)), Str(sNotJson),
     Str(sEmptyObject), Str(sNull), Obj(<<>>)}

LabelDataProperties ==
    {Undefined, OmniLabelDoc(kM), JsonText(OmniLabelDoc(kM)), Str(sNotJson)}

InitOmni ==
    \E omni \in OmniWrappers, data \in FormDataProperties, labels \in LabelDataProperties :
        Constructed(omni, data, labels, FALSE, <<>>)

NextOmni == connectedCallback \/ renderedCallback

\* the component constructed with its properties, connected and rendered
SpecOmni == InitOmni /\ [][NextOmni]_vars

-----------------------------------------------------------------------------
(* The lifecycle specification: the host assigns the properties of the     *)
(* component, connects it, possibly more than once, and renders it, and    *)
(* the user clicks and presses keys on the headers of the sections.        *)

sTab == <<"T","a","b">>
sSkipB == <<"B">>
sSkipSpaced == <<" ","A"," ",",",",","B">>

\* two sections of one field each
TwoSections ==
    Obj(<< <<SectionNames[1], One(kA, Str(sX))>>, <<SectionNames[2], One(kA, Str(sX))>> >>)
\* labels for both of them, with the label text of the key
TwoLabels(key) ==
    Obj(<< <<SectionNames[1], One(kA, Str(LabelText(key)))>>,
           <<SectionNames[2], One(kA, Str(LabelText(key)))>> >>)

LifeWrappers ==
    {Undefined,
     Obj(<< <<kFormData, TwoSections>>, <<kLabels, One(SectionNames[2], One(kA, Str(LabelText(kB))))>> >>),
     Obj(<< <<SectionNames[1], One(kA, Str(sY))>> >>)}

LifeFormData == {Undefined, TwoSections, Str(sNotJson)}

LifeLabelData == {Undefined, TwoLabels(kA), One(SectionNames[1], One(kA, Str(LabelText(kM))))}

LifeSkipLists == {Str(sSkipB), Str(sSkipSpaced), Arr(<<Str(SectionNames[1])>>), Num(1)}

EventKeys == {sEnter, sSpace, sTab}

\* the ids of the sections the page shows
SectionIds == {processedSections[s].id : s \in DOMAIN processedSections}

\* an id that no section carries
UnknownId == <<"S","t","e","p","9">>

\* the ids an event may carry in dataset.sectionId
EventIds == SectionIds \cup {UnknownId}

\* a component as constructed, with hideEmptyFields and collapsibleSections as
\* the page is configured
Init ==
    /\ omniJsonData = Undefined
    /\ formData = Undefined
    /\ labelData = Undefined
    /\ hideEmptyFields \in BOOLEAN
    /\ collapsibleSections \in BOOLEAN
    /\ _skipFields = <<>>
    /\ processedSections = <<>>
    /\ isLoading = TRUE
    /\ hasError = FALSE
    /\ errorMessage = <<>>
    /\ _formData = Null
    /\ _labelData = Null
    /\ _lastOmniDataHash = Null
    /\ _isInitialized = FALSE

Next ==
    \/ \E value \in LifeWrappers : SetOmniJsonData(value)
    \/ \E value \in LifeFormData : SetFormData(value)
    \/ \E value \in LifeLabelData : SetLabelData(value)
    \/ \E value \in LifeSkipLists : skipFieldsList(value)
    \/ connectedCallback
    \/ renderedCallback
    \/ \E sectionId \in EventIds : handleSectionToggle(sectionId)
    \/ \E key \in EventKeys, sectionId \in EventIds : handleSectionKeydown(key, sectionId)

Spec == Init /\ [][Next]_vars

-----------------------------------------------------------------------------
(* Properties of the tree.  They read the documents the component kept in  *)
(* _formData and _labelData and the tree it left in processedSections.     *)

\* initializeData has built a tree from the documents
Processed == ~isLoading /\ ~hasError

\* key is a property the document x carries itself
Own(x, key) == x.t = "object" /\ \E i \in DOMAIN x.v : x.v[i][1] = key

\* the value of the property key of the document x
At(x, key) ==
    IF Own(x, key) THEN x.v[CHOOSE i \in DOMAIN x.v : x.v[i][1] = key][2] ELSE Undefined

\* the entries of a document that is a mapping
Entries(x) == IF x.t = "object" THEN x.v ELSE <<>>

\* the place of key among the keys of the label document labels
LabelPosition(labels, key) == CHOOSE i \in DOMAIN labels.v : labels.v[i][1] = key

\* the data of a section: a section given as a JSON text is read
SectionData(key) ==
    IF At(_formData, key).t = "string" THEN JSONParse(At(_formData, key).v)
    ELSE At(_formData, key)

SectionLabels(key) == At(_labelData, key)

\* the item schema of the label entry of an array
ItemSchema(labels) ==
    IF labels.t = "array" THEN (IF Len(labels.v) > 0 THEN labels.v[1] ELSE Undefined)
    ELSE labels

IsMetaKey(key) == key # <<>> /\ key[1] = "_"

\* a label entry that labels a field
LabelsField(l) ==
    \/ l.t = "string" /\ l.v # <<>>
    \/ l.t = "object" /\ Truthy(At(l, kLabel))

\* the label text of such an entry
LabelOf(l) == IF l.t = "string" THEN l ELSE At(l, kLabel)

\* a value the formatter shows as the placeholder
IsEmptyValue(v) == v \in {Null, Str(<<>>)}

FieldIds(fields) == [i \in DOMAIN fields |-> fields[i].id]

Emitted(key) == \E s \in DOMAIN processedSections : processedSections[s].id = key

EmittedSection(key) ==
    processedSections[CHOOSE s \in DOMAIN processedSections : processedSections[s].id = key]

\* the fields of a container have keys that the data and the labels of the
\* container both carry
FieldsGated(fields, data, labels) ==
    \A i \in DOMAIN fields : Own(data, fields[i].id) /\ Own(labels, fields[i].id)

RECURSIVE BlockGated(_, _, _)
\* the same for a block of a container with these data and labels, and all in it
BlockGated(block, data, labels) ==
    /\ Own(data, block.id)
    /\ Own(labels, block.id)
    /\ IF block.isArray
       THEN \A r \in DOMAIN block.items :
               FieldsGated(block.items[r].fields,
                           At(data, block.id).v[block.items[r].index],
                           ItemSchema(At(labels, block.id)))
       ELSE /\ FieldsGated(block.fields, At(data, block.id), At(labels, block.id))
            /\ \A n \in DOMAIN block.nestedBlocks :
                  BlockGated(block.nestedBlocks[n], At(data, block.id), At(labels, block.id))

\* C1: every section, block, array block and field of the tree has an id that is
\* a key of the label document and of the data document at the path of the node
LabelGatedProjection ==
    Processed =>
        \A s \in DOMAIN processedSections :
            /\ Own(_formData, processedSections[s].id)
            /\ Own(_labelData, processedSections[s].id)
            /\ FieldsGated(processedSections[s].fields,
                           SectionData(processedSections[s].id),
                           SectionLabels(processedSections[s].id))
            /\ \A b \in DOMAIN processedSections[s].blocks :
                  BlockGated(processedSections[s].blocks[b],
                             SectionData(processedSections[s].id),
                             SectionLabels(processedSections[s].id))

\* the label entry of the section key carries a numeric _order
HasOrder(key) == At(SectionLabels(key), kOrder).t = "number"

OrderValue(key) == At(SectionLabels(key), kOrder).v

\* section a may stand before section b
MayPrecede(a, b) ==
    IF HasOrder(a) /\ HasOrder(b) THEN OrderValue(a) <= OrderValue(b)
    ELSE IF HasOrder(b) THEN FALSE
    ELSE IF HasOrder(a) THEN TRUE
    ELSE LabelPosition(_labelData, a) < LabelPosition(_labelData, b)

\* C2: the sections stand in ascending numeric _order, every section without a
\* numeric _order stands after every section with one, and the sections without
\* one keep the order of the label document
SectionsInOrder ==
    Processed =>
        \A i, j \in DOMAIN processedSections :
            i < j => MayPrecede(processedSections[i].id, processedSections[j].id)

\* the fields stand in the order of their keys in the label document labels
InLabelOrder(fields, labels) ==
    \A i, j \in DOMAIN fields :
        i < j => /\ Own(labels, fields[i].id)
                 /\ Own(labels, fields[j].id)
                 /\ LabelPosition(labels, fields[i].id) < LabelPosition(labels, fields[j].id)

RECURSIVE BlockInLabelOrder(_, _)
\* the same for the fields of a block with these labels, and of all in it
BlockInLabelOrder(block, labels) ==
    IF block.isArray
    THEN \A r \in DOMAIN block.items :
            InLabelOrder(block.items[r].fields, ItemSchema(labels))
    ELSE /\ InLabelOrder(block.fields, labels)
         /\ \A n \in DOMAIN block.nestedBlocks :
               BlockInLabelOrder(block.nestedBlocks[n], At(labels, block.nestedBlocks[n].id))

\* C3: in every section, block at any depth and array row of the tree the fields
\* stand in the order of their keys in the label document
FieldsFollowLabels ==
    Processed =>
        \A s \in DOMAIN processedSections :
            /\ InLabelOrder(processedSections[s].fields,
                            SectionLabels(processedSections[s].id))
            /\ \A b \in DOMAIN processedSections[s].blocks :
                  BlockInLabelOrder(processedSections[s].blocks[b],
                                    At(SectionLabels(processedSections[s].id),
                                       processedSections[s].blocks[b].id))

\* a block with the fields a, b whose data list b before a
DataOrderIgnored ==
    /\ Processed
    /\ \E s \in DOMAIN processedSections :
          \E b \in DOMAIN processedSections[s].blocks :
              /\ ~processedSections[s].blocks[b].isArray
              /\ FieldIds(processedSections[s].blocks[b].fields) = <<kA, kB>>
              /\ Keys(Entries(At(SectionData(processedSections[s].id),
                                 processedSections[s].blocks[b].id))) = <<kB, kA>>

RECURSIVE BlockNotEmpty(_)
BlockNotEmpty(block) ==
    IF block.isArray
    THEN /\ Len(block.items) >= 1
         /\ \A r \in DOMAIN block.items : Len(block.items[r].fields) >= 1
    ELSE /\ Len(block.fields) >= 1 \/ Len(block.nestedBlocks) >= 1
         /\ \A n \in DOMAIN block.nestedBlocks : BlockNotEmpty(block.nestedBlocks[n])

\* C4: no container of the tree is empty: a section has a field or a block, a
\* block has a field or a nested block, an array block has a row, a row has a field
NoEmptyContainer ==
    \A s \in DOMAIN processedSections :
        /\ Len(processedSections[s].fields) >= 1 \/ Len(processedSections[s].blocks) >= 1
        /\ \A b \in DOMAIN processedSections[s].blocks :
              BlockNotEmpty(processedSections[s].blocks[b])

\* a labelled block of a section that has data, and a tree without sections
EmptyBlockPruned ==
    /\ Processed
    /\ processedSections = <<>>
    /\ At(SectionLabels(kStep1), kBlock1).t = "object"
    /\ At(SectionData(kStep1), kBlock1).t = "object"

\* no field of the sequence shows the placeholder
NoPlaceholder(fields) == \A i \in DOMAIN fields : fields[i].displayValue # Placeholder

RECURSIVE BlockNoPlaceholder(_)
BlockNoPlaceholder(block) ==
    IF block.isArray
    THEN \A r \in DOMAIN block.items : NoPlaceholder(block.items[r].fields)
    ELSE /\ NoPlaceholder(block.fields)
         /\ \A n \in DOMAIN block.nestedBlocks : BlockNoPlaceholder(block.nestedBlocks[n])

\* the key of the i-th entry of labels is labelled as a field and has, in data, a
\* value that is empty (empty = TRUE) or a string or number that is not
FieldEntry(labels, i, data, empty) ==
    /\ ~IsMetaKey(labels.v[i][1])
    /\ LabelsField(labels.v[i][2])
    /\ Own(data, labels.v[i][1])
    /\ IF empty THEN IsEmptyValue(At(data, labels.v[i][1]))
       ELSE /\ At(data, labels.v[i][1]).t \in {"string", "number"}
            /\ ~IsEmptyValue(At(data, labels.v[i][1]))

\* fields holds a field of that key that shows the placeholder (empty = TRUE) or
\* something else
HasField(fields, key, empty) ==
    \E f \in DOMAIN fields :
        fields[f].id = key /\ ((fields[f].displayValue = Placeholder) <=> empty)

\* every labelled empty value of data is a field that shows the placeholder
EmptyShown(fields, data, labels) ==
    \A i \in DOMAIN Entries(labels) :
        FieldEntry(labels, i, data, TRUE) => HasField(fields, labels.v[i][1], TRUE)

RECURSIVE BlockEmptyShown(_, _, _)
BlockEmptyShown(block, data, labels) ==
    IF block.isArray
    THEN \A r \in DOMAIN block.items :
            EmptyShown(block.items[r].fields, data.v[block.items[r].index],
                       ItemSchema(labels))
    ELSE /\ EmptyShown(block.fields, data, labels)
         /\ \A n \in DOMAIN block.nestedBlocks :
               BlockEmptyShown(block.nestedBlocks[n],
                               At(data, block.nestedBlocks[n].id),
                               At(labels, block.nestedBlocks[n].id))

\* the section key has labels and data that are mappings and is not skipped
IsSection(key) ==
    /\ SectionLabels(key).t = "object"
    /\ SectionData(key).t = "object"
    /\ \A i \in DOMAIN _skipFields : _skipFields[i] # key

\* with hideEmptyFields: no field shows the placeholder, a section with another
\* child than the hidden fields is emitted with it, a section with nothing but
\* labelled empty values is not emitted
HiddenWhenEmpty(key) ==
    /\ Emitted(key) =>
          /\ NoPlaceholder(EmittedSection(key).fields)
          /\ \A b \in DOMAIN EmittedSection(key).blocks :
                BlockNoPlaceholder(EmittedSection(key).blocks[b])
    /\ \A i \in DOMAIN SectionLabels(key).v :
          FieldEntry(SectionLabels(key), i, SectionData(key), FALSE) =>
              /\ Emitted(key)
              /\ HasField(EmittedSection(key).fields, SectionLabels(key).v[i][1], FALSE)
    /\ (\A i \in DOMAIN SectionLabels(key).v :
           \/ IsMetaKey(SectionLabels(key).v[i][1])
           \/ FieldEntry(SectionLabels(key), i, SectionData(key), TRUE))
       => ~Emitted(key)

\* without hideEmptyFields: every labelled empty value, of the section, of its
\* blocks and of its rows, is a field that shows the placeholder
ShownWhenEmpty(key) ==
    /\ \A i \in DOMAIN SectionLabels(key).v :
          FieldEntry(SectionLabels(key), i, SectionData(key), TRUE) =>
              /\ Emitted(key)
              /\ HasField(EmittedSection(key).fields, SectionLabels(key).v[i][1], TRUE)
    /\ Emitted(key) =>
          \A b \in DOMAIN EmittedSection(key).blocks :
              BlockEmptyShown(EmittedSection(key).blocks[b],
                              At(SectionData(key), EmittedSection(key).blocks[b].id),
                              At(SectionLabels(key), EmittedSection(key).blocks[b].id))

RowKeys(item, schema) ==
    SelectSeq(Keys(Entries(schema)),
              LAMBDA k : /\ ~IsMetaKey(k)
                         /\ LabelsField(At(schema, k))
                         /\ Own(item, k)
                         /\ (hideEmptyFields => ~IsEmptyValue(At(item, k))))

\* the places of the elements of the array that give a field
RowPlaces(array, schema) ==
    SelectSeq([n \in DOMAIN array.v |-> n], LAMBDA n : RowKeys(array.v[n], schema) # <<>>)

\* the column headers the element item gives
Headers(item, schema) ==
    [i \in DOMAIN RowKeys(item, schema) |->
        [label |-> LabelOf(At(schema, RowKeys(item, schema)[i])),
         fieldName |-> RowKeys(item, schema)[i]]]

\* the row is the one of the element at place n
IsRowOf(row, n, array, schema) ==
    /\ row.index = n
    /\ FieldIds(row.fields) = RowKeys(array.v[n], schema)
    /\ \A f \in DOMAIN row.fields :
          /\ row.fields[f].label = LabelOf(At(schema, row.fields[f].id))
          /\ row.fields[f].value = At(array.v[n], row.fields[f].id)

\* blocks are the blocks the section emitted for the array: one block of the rows
\* of the elements that give a field, none when no element gives one
IsArrayBlock(blocks, array, schema) ==
    IF RowPlaces(array, schema) = <<>> THEN blocks = <<>>
    ELSE /\ Len(blocks) = 1
         /\ blocks[1].isArray
         /\ Len(blocks[1].items) = Len(RowPlaces(array, schema))
         /\ \A j \in DOMAIN blocks[1].items :
               IsRowOf(blocks[1].items[j], RowPlaces(array, schema)[j], array, schema)
         /\ blocks[1].columns = Headers(array.v[1], schema)

\* the blocks of the tree for the key under the section
BlocksOf(section, key) ==
    IF Emitted(section)
    THEN SelectSeq(EmittedSection(section).blocks, LAMBDA b : b.id = key)
    ELSE <<>>

\* C10: an array directly under a section whose label entry is a mapping, or an
\* array that starts with one, gives one block with isArray, with the rows of the
\* elements that give a field in array order, every row built from the one item
\* schema, and with the labels of the fields of the first element as columns
ArrayBlocks ==
    Processed =>
        \A i \in DOMAIN Entries(_labelData) :
            IsSection(_labelData.v[i][1]) =>
                \A k \in DOMAIN _labelData.v[i][2].v :
                    (/\ ~IsMetaKey(_labelData.v[i][2].v[k][1])
                     /\ At(SectionData(_labelData.v[i][1]), _labelData.v[i][2].v[k][1]).t = "array"
                     /\ ItemSchema(_labelData.v[i][2].v[k][2]).t = "object")
                    => IsArrayBlock(BlocksOf(_labelData.v[i][1], _labelData.v[i][2].v[k][1]),
                                    At(SectionData(_labelData.v[i][1]),
                                       _labelData.v[i][2].v[k][1]),
                                    ItemSchema(_labelData.v[i][2].v[k][2]))

\* Items: [{n: 1}, {n: 2}] under Items: {n: 'Number'}: two rows and one column
TwoRowsOneColumn ==
    /\ Processed
    /\ At(SectionData(kStep1), kItems) = Arr(<<One(kN, Num(1)), One(kN, Num(2))>>)
    /\ At(SectionLabels(kStep1), kItems) = One(kN, Str(sNumber1))
    /\ Len(BlocksOf(kStep1, kItems)) = 1
    /\ Len(BlocksOf(kStep1, kItems)[1].items) = 2
    /\ BlocksOf(kStep1, kItems)[1].columns = <<[label |-> Str(sNumber1), fieldName |-> kN]>>

-----------------------------------------------------------------------------
(* Properties of the fields.  Under SpecField the documents hold one       *)
(* section of one key: its value, its label entry and its field are        *)

InputKey == _labelData.v[1][2].v[1][1]

InputLabel == _labelData.v[1][2].v[1][2]

InputValue == _formData.v[1][2].v[1][2]

FieldEmitted ==
    /\ Processed
    /\ Len(processedSections) = 1
    /\ Len(processedSections[1].fields) = 1

TheField == processedSections[1].fields[1]

\* the type the label entry gives
GivenType == At(InputLabel, kType)

\* the digits of a text
DigitsOf(text) == SelectSeq(text, LAMBDA c : c \in {"0","1","2","3","4","5","6","7","8","9"})

\* the last ten of the digits d, in groups of 3, 3 and 4
LastTen(d, sep1, sep2) ==
    SubSeq(d, Len(d) - 9, Len(d) - 7) \o sep1 \o SubSeq(d, Len(d) - 6, Len(d) - 4)
    \o sep2 \o SubSeq(d, Len(d) - 3, Len(d))

\* the telephone rule on the text of a value and its digits d
PhoneText(text, d) ==
    IF Len(d) = 10 THEN <<"(">> \o SubSeq(d, 1, 3) \o <<")", " ">>
                        \o SubSeq(d, 4, 6) \o <<"-">> \o SubSeq(d, 7, 10)
    ELSE IF Len(d) = 11 /\ d[1] = "1"
    THEN <<"+", "1", " ", "(">> \o SubSeq(d, 2, 4) \o <<")", " ">>
         \o SubSeq(d, 5, 7) \o <<"-">> \o SubSeq(d, 8, 11)
    ELSE IF Len(d) > 10
    THEN <<"+">> \o SubSeq(d, 1, Len(d) - 10) \o <<" ">> \o LastTen(d, <<" ">>, <<" ">>)
    ELSE text

PhoneRule(value) == PhoneText(StringOf(value), DigitsOf(StringOf(value)))

\* the rule of the formatter for a value that is not empty, by the type
RuleOfType(type, value) ==
    CASE type = Str(sBoolean) ->
            IF value.t = "boolean" THEN (IF value.v THEN sYes ELSE sNo)
            ELSE booleanText(value, ToLowerCase(StringOf(value)))
      [] type = Str(sCurrency) -> currencyText(value, numValue(value))
      [] type = Str(sPhone) -> PhoneRule(value)
      [] type = Str(sEmail) -> ToLowerCase(Trim(StringOf(value)))
      [] type = Str(sDate) -> formatDate(value)
      [] type = Str(sNumber) -> numberText(value, numValue(value))
      [] OTHER -> IF value.t = "number" THEN toLocaleString(numValue(value))
                  ELSE StringOf(value)

\* the formatter: the placeholder for an empty value, else the rule of the type
TypeRule(type, value) ==
    IF value \in {Null, Undefined, Str(<<>>)} THEN Placeholder
    ELSE RuleOfType(type, value)

\* C6: an object label entry that gives a type: the field has that type and shows
\* what the rule of that type gives for the value, a native boolean included
ExplicitTypeDecides ==
    (FieldEmitted /\ Truthy(GivenType)) =>
        /\ TheField.fieldType = GivenType
        /\ TheField.displayValue = TypeRule(GivenType, InputValue)

\* key holds word, letter case apart
HoldsWord(key, word) ==
    \E i \in 1..(Len(key) - Len(word) + 1) :
        \A j \in DOMAIN word : ToLowerChar(key[i + j - 1]) = word[j]

\* a string of the form YYYY-MM-DD
IsoShaped(value) ==
    /\ value.t = "string"
    /\ Len(value.v) = 10
    /\ \A i \in 1..10 : IF i \in {5, 8} THEN value.v[i] = "-" ELSE IsDigit(value.v[i])

\* the first match of the list of detectFieldType
FirstMatch(key, value) ==
    IF value.t = "boolean" THEN sBoolean
    ELSE IF HoldsWord(key, sEmail) THEN sEmail
    ELSE IF HoldsWord(key, sPhone) \/ HoldsWord(key, sTel) THEN sPhone
    ELSE IF \/ HoldsWord(key, sAmount) \/ HoldsWord(key, sBudget)
            \/ HoldsWord(key, sCost) \/ HoldsWord(key, sPrice)
    THEN sCurrency
    ELSE IF HoldsWord(key, sDate) \/ IsoShaped(value) THEN sDate
    ELSE sText

\* C7: without a given type the field has the type of the first match of: native
\* boolean, key with email, with phone or tel, with amount, budget, cost or
\* price, with date or a YYYY-MM-DD value, text; it is one of these six tags
DetectionFirstMatch ==
    (FieldEmitted /\ ~Truthy(GivenType)) =>
        /\ TheField.fieldType = Str(FirstMatch(InputKey, InputValue))
        /\ TheField.fieldType \in {Str(sBoolean), Str(sEmail), Str(sPhone),
                                   Str(sCurrency), Str(sDate), Str(sText)}

\* the key phoneEmail, which holds phone and email, is an e-mail field
EmailBeforePhone ==
    /\ FieldEmitted
    /\ InputKey = sPhone \o <<"E","m","a","i","l">>
    /\ InputValue = Str(sX)
    /\ TheField.fieldType = Str(sEmail)

\* the colspan a label entry asks for
ExpectedColspan(labelInfo) ==
    IF At(labelInfo, kColspan).t # "number" THEN 6
    ELSE IF At(labelInfo, kColspan).v < 1 THEN 1
    ELSE IF At(labelInfo, kColspan).v > 12 THEN 12
    ELSE At(labelInfo, kColspan).v

ColspanText ==
    << <<"1">>, <<"2">>, <<"3">>, <<"4">>, <<"5">>, <<"6">>, <<"7">>, <<"8">>, <<"9">>,
       <<"1","0">>, <<"1","1">>, <<"1","2">> >>

\* C8: the colspan of a field lies in 1..12: a numeric colspan of an object label
\* limited to this range, 6 for one that is absent or no number and for a string
\* label; spanClass names the same colspan
ColspanInRange ==
    FieldEmitted =>
        /\ TheField.colspan \in 1..12
        /\ TheField.colspan = ExpectedColspan(InputLabel)
        /\ TheField.spanClass = sSpanPrefix \o ColspanText[TheField.colspan]

\* the colspan 13 gives 12
ColspanClamped ==
    /\ FieldEmitted
    /\ At(InputLabel, kColspan) = Num(13)
    /\ TheField.colspan = 12

\* C9: a telephone field of a number or a string that is not empty shows the
\* digits as (XXX) XXX-XXXX for 10 digits, +1 (XXX) XXX-XXXX for 11 that start
\* with 1, +<leading digits> XXX XXX XXXX for more than 10, else the value as text
PhoneFormatted ==
    (/\ FieldEmitted
     /\ TheField.fieldType = Str(sPhone)
     /\ InputValue.t \in {"number", "string"}
     /\ InputValue # Str(<<>>))
    => TheField.displayValue = PhoneRule(InputValue)

-----------------------------------------------------------------------------
(* Properties of the shapes of the documents, under SpecTree.              *)

\* the i-th entry of labels is a labelled value of data that the container shows
ShownEntry(labels, i, data) ==
    \/ FieldEntry(labels, i, data, FALSE)
    \/ ~hideEmptyFields /\ FieldEntry(labels, i, data, TRUE)

\* every labelled value of data that is to be shown is among the fields
FieldsComplete(fields, data, labels) ==
    \A i \in DOMAIN Entries(labels) :
        ShownEntry(labels, i, data) =>
            \E f \in DOMAIN fields : fields[f].id = labels.v[i][1]

RECURSIVE BlocksComplete(_, _, _)
\* every mapping of data under a mapping of labels that shows a field of its own
\* is among the blocks, with all its fields and such blocks
BlocksComplete(blocks, data, labels) ==
    \A i \in DOMAIN Entries(labels) :
        (/\ ~IsMetaKey(labels.v[i][1])
         /\ labels.v[i][2].t = "object"
         /\ At(data, labels.v[i][1]).t = "object"
         /\ \E k \in DOMAIN labels.v[i][2].v :
               ShownEntry(labels.v[i][2], k, At(data, labels.v[i][1])))
        => \E b \in DOMAIN blocks :
              /\ blocks[b].id = labels.v[i][1]
              /\ ~blocks[b].isArray
              /\ FieldsComplete(blocks[b].fields, At(data, labels.v[i][1]), labels.v[i][2])
              /\ BlocksComplete(blocks[b].nestedBlocks, At(data, labels.v[i][1]),
                                labels.v[i][2])

\* every array of the section under an item schema is the block of the rows of
\* its elements that are mappings and give a field
RowsComplete(key) ==
    \A k \in DOMAIN SectionLabels(key).v :
        (/\ ~IsMetaKey(SectionLabels(key).v[k][1])
         /\ At(SectionData(key), SectionLabels(key).v[k][1]).t = "array"
         /\ ItemSchema(SectionLabels(key).v[k][2]).t = "object")
        => IsArrayBlock(BlocksOf(key, SectionLabels(key).v[k][1]),
                        At(SectionData(key), SectionLabels(key).v[k][1]),
                        ItemSchema(SectionLabels(key).v[k][2]))

\* the section of the key holds every well-formed child of its documents
SectionComplete(key) ==
    /\ FieldsComplete(IF Emitted(key) THEN EmittedSection(key).fields ELSE <<>>,
                      SectionData(key), SectionLabels(key))
    /\ BlocksComplete(IF Emitted(key) THEN EmittedSection(key).blocks ELSE <<>>,
                      SectionData(key), SectionLabels(key))
    /\ RowsComplete(key)

\* C11: with documents given as mappings, whatever the shapes of their entries,
\* the initialization ends without error, and every labelled value, block and
\* array row that is well formed is in the tree
MismatchOnlyDrops ==
    (~isLoading /\ formData.t = "object" /\ labelData.t = "object") =>
        /\ ~hasError
        /\ \A i \in DOMAIN Entries(_labelData) :
              IsSection(_labelData.v[i][1]) => SectionComplete(_labelData.v[i][1])

-----------------------------------------------------------------------------
(* Properties of the normalization of the inputs, under SpecOmni: the      *)
(* properties stay as they were given, and _isInitialized tells that       *)
(* initializeData has run on them.                                         *)

\* a text that is given and that JSON.parse rejects
IsBadJson(x) == x.t = "string" /\ x.v # <<>> /\ JSONParse(x.v).t = "thrown"

\* the label document inside the wrapper: labelData, labels or fieldLabels
OmniLabelSource ==
    IF omniJsonData.t = "object"
    THEN OrElse(At(omniJsonData, kLabelData),
                OrElse(At(omniJsonData, kLabels), At(omniJsonData, kFieldLabels)))
    ELSE Undefined

\* C12: after an initialization with formData or labelData given as a text that
\* is no JSON, or with the label document of omniJsonData given as one, hasError
\* is set, errorMessage is not empty and isLoading is false
BadJsonEndsInError ==
    (/\ _isInitialized
     /\ (IsBadJson(formData) \/ IsBadJson(labelData) \/ IsBadJson(OmniLabelSource)))
    => (hasError /\ errorMessage # <<>> /\ ~isLoading)

\* a data document that is absent or empty
IsEmptyData(d) == d.t \in {"undefined", "null"} \/ d \in {Obj(<<>>), Arr(<<>>), Str(<<>>)}

\* C18: after an initialization from inputs that parse, with a data document
\* that is absent or empty, hasError is set, errorMessage is 'No form data
\* provided.' and isLoading is false
NoDataState ==
    (/\ _isInitialized
     /\ ~IsBadJson(formData)
     /\ ~IsBadJson(labelData)
     /\ IsEmptyData(_formData))
    => (hasError /\ errorMessage = sNoFormData /\ ~isLoading)

-----------------------------------------------------------------------------
(* Properties of a section given as a text, under SpecTree.                *)

\* a text that JSON.parse rejects
BadText(x) == x.t = "string" /\ JSONParse(x.v).t = "thrown"

\* the label document labels the key, and its data is a text that is no JSON
BadSection(key) == Own(_labelData, key) /\ BadText(At(_formData, key))

\* the section of the key has a labelled value to show
HasShownField(key) ==
    \E i \in DOMAIN SectionLabels(key).v :
        ShownEntry(SectionLabels(key), i, SectionData(key))

\* C13: when the value of a labelled section key is a text that is no JSON, the
\* initialization ends without error, the tree has no section of that key, it has
\* the section of every other key whose data holds a labelled value, complete,
\* and its sections stand in the order of _order and of the label document
BadSectionOnlyOmitted ==
    (/\ _isInitialized
     /\ formData.t = "object"
     /\ labelData.t = "object"
     /\ \E i \in DOMAIN _labelData.v : BadSection(_labelData.v[i][1]))
    => /\ ~hasError
       /\ ~isLoading
       /\ \A i \in DOMAIN _labelData.v :
             /\ BadSection(_labelData.v[i][1]) => ~Emitted(_labelData.v[i][1])
             /\ (IsSection(_labelData.v[i][1]) /\ HasShownField(_labelData.v[i][1]))
                => (Emitted(_labelData.v[i][1]) /\ SectionComplete(_labelData.v[i][1]))
       /\ \A i, j \in DOMAIN processedSections :
             i < j => MayPrecede(processedSections[i].id, processedSections[j].id)

\* the first of the sections is a text that is no JSON, the others are emitted
BadSectionSkipped ==
    /\ _isInitialized
    /\ ~hasError
    /\ BadSection(SectionNames[1])
    /\ ~Emitted(SectionNames[1])
    /\ \A n \in 2..NumSections : Emitted(SectionNames[n])
    /\ Len(processedSections) = NumSections - 1

-----------------------------------------------------------------------------
(* Properties of the data document, under SpecOmni.                        *)

\* the data document as it is given: the formData property, else the formData
\* entry, the reviewData entry or the whole of omniJsonData
DataSource ==
    IF Truthy(formData) THEN formData
    ELSE IF omniJsonData.t = "object"
    THEN OrElse(At(omniJsonData, kFormData),
                OrElse(At(omniJsonData, kReviewData), omniJsonData))
    ELSE Undefined

\* C14: after an initialization whose data document is given as the JSON text of
\* a mapping, the tree is the tree of that mapping under the label document, and
\* there is no error
StringDataSameTree ==
    (/\ _isInitialized
     /\ DataSource.t = "string"
     /\ JSONParse(DataSource.v).t = "object"
     /\ ~IsBadJson(labelData))
    => /\ ~hasError
       /\ processedSections = processFormData(JSONParse(DataSource.v), _labelData).sections

-----------------------------------------------------------------------------
(* Properties of the keys of the tree, under SpecTree.                     *)

\* the ids of the fields
FieldIdSet(fields) == {fields[f].id : f \in DOMAIN fields}

RECURSIVE BlockIdSet(_)
\* the keys of a block: its id, the ids of its fields and of its nested blocks,
\* the ids of the fields of its rows and the field names of its columns
BlockIdSet(block) ==
    {block.id}
    \cup (IF block.isArray
          THEN UNION {FieldIdSet(block.items[r].fields) : r \in DOMAIN block.items}
               \cup {block.columns[c].fieldName : c \in DOMAIN block.columns}
          ELSE FieldIdSet(block.fields)
               \cup UNION {BlockIdSet(block.nestedBlocks[n]) :
                             n \in DOMAIN block.nestedBlocks})

\* the keys of all the nodes of the tree
TreeIdSet ==
    UNION {{processedSections[s].id}
           \cup FieldIdSet(processedSections[s].fields)
           \cup UNION {BlockIdSet(processedSections[s].blocks[b]) :
                         b \in DOMAIN processedSections[s].blocks} :
           s \in DOMAIN processedSections}

\* C15: no section, block, field, row field or column of the tree has a key of
\* the skip list
NoSkippedNode ==
    Processed => \A i \in DOMAIN _skipFields : _skipFields[i] \notin TreeIdSet

\* C16: no section, block, field, row field or column of the tree has a key that
\* begins with an underscore
NoMetaKeyNode == Processed => \A id \in TreeIdSet : ~IsMetaKey(id)

\* the label entry of the key in labels carries a numeric _order
HasBlockOrder(labels, key) == At(At(labels, key), kOrder).t = "number"

RECURSIVE BlocksSorted(_, _)
\* the blocks of a container with these labels that carry a numeric _order stand
\* in ascending _order, and so do the nested blocks of each of them
BlocksSorted(blocks, labels) ==
    /\ \A i, j \in DOMAIN blocks :
          (i < j /\ HasBlockOrder(labels, blocks[i].id) /\ HasBlockOrder(labels, blocks[j].id))
          => At(At(labels, blocks[i].id), kOrder).v <= At(At(labels, blocks[j].id), kOrder).v
    /\ \A b \in DOMAIN blocks :
          blocks[b].isArray \/ BlocksSorted(blocks[b].nestedBlocks, At(labels, blocks[b].id))

\* C19: the blocks of every section, and the nested blocks of every block, whose
\* label entries carry a numeric _order stand in ascending _order
BlocksInOrder ==
    Processed =>
        \A s \in DOMAIN processedSections :
            BlocksSorted(processedSections[s].blocks,
                         SectionLabels(processedSections[s].id))

-----------------------------------------------------------------------------
(* Properties of the lifecycle, under Spec.                                *)

\* the data document a component constructed with the present properties reads
FreshData ==
    IF Truthy(formData) THEN parseIfString(formData)
    ELSE IF Truthy(omniJsonData)
    THEN OrElse(Get(omniJsonData, kFormData),
                OrElse(Get(omniJsonData, kReviewData), omniJsonData))
    ELSE Null

\* the label document it reads: _labelData is null in a component just constructed
FreshLabels ==
    IF Truthy(labelData) THEN parseIfString(labelData)
    ELSE IF Truthy(omniJsonData)
    THEN labelSourceData(OrElse(Get(omniJsonData, kLabelData),
                         OrElse(Get(omniJsonData, kLabels),
                         OrElse(Get(omniJsonData, kFieldLabels), Obj(<<>>)))))
    ELSE Null

\* C17: every initialization that ends without error leaves the tree that a
\* component constructed with the present omniJsonData, formData, labelData,
\* hideEmptyFields and skip list builds from them
InputsDecideTree ==
    [][(/\ UNCHANGED <<omniJsonData, formData, labelData, _skipFields>>
        /\ _isInitialized'
        /\ ~hasError'
        /\ connectedCallback \/ renderedCallback)
       => processFormData(FreshData, FreshLabels) =
              [t |-> "object", sections |-> processedSections']]_vars

\* C20: while collapsibleSections is false every section of the tree is expanded
AlwaysExpanded ==
    ~collapsibleSections =>
        \A s \in DOMAIN processedSections : processedSections[s].isExpanded

RECURSIVE ArraysComplete(_, _, _)
\* every array of data under an item schema whose elements give a field is among
\* the blocks as a block with isArray, here and in every block among them that is
\* no array
ArraysComplete(blocks, data, labels) ==
    /\ \A i \in DOMAIN Entries(labels) :
          (/\ ~IsMetaKey(labels.v[i][1])
           /\ At(data, labels.v[i][1]).t = "array"
           /\ ItemSchema(labels.v[i][2]).t = "object"
           /\ RowPlaces(At(data, labels.v[i][1]), ItemSchema(labels.v[i][2])) # <<>>)
          => \E b \in DOMAIN blocks :
                /\ blocks[b].id = labels.v[i][1]
                /\ blocks[b].isArray
                /\ Len(blocks[b].items) =
                      Len(RowPlaces(At(data, labels.v[i][1]), ItemSchema(labels.v[i][2])))
    /\ \A b \in DOMAIN blocks :
          ~blocks[b].isArray =>
              ArraysComplete(blocks[b].nestedBlocks, At(data, blocks[b].id),
                             At(labels, blocks[b].id))

\* C21: an array whose label entry is a mapping, or an array that starts with
\* one, is in the tree as a block with isArray wherever it stands: under a
\* section, inside a block and inside a nested block
ArraysAtEveryDepth ==
    (Processed /\ formData.t = "object" /\ labelData.t = "object") =>
        \A i \in DOMAIN Entries(_labelData) :
            (IsSection(_labelData.v[i][1]) /\ Emitted(_labelData.v[i][1])) =>
                ArraysComplete(EmittedSection(_labelData.v[i][1]).blocks,
                               SectionData(_labelData.v[i][1]),
                               SectionLabels(_labelData.v[i][1]))

\* the value a text stands for when it is the JSON text of a mapping or of an
\* array
Decoded(x) ==
    IF x.t = "string" /\ JSONParse(x.v).t \in {"object", "array"} THEN JSONParse(x.v)
    ELSE x

\* the value under the label entry l shows something: a field of the mapping, a
\* row of the array
ShowsContent(value, l) ==
    IF value.t = "array"
    THEN ItemSchema(l).t = "object" /\ RowPlaces(value, ItemSchema(l)) # <<>>
    ELSE l.t = "object" /\ \E k \in DOMAIN l.v : ShownEntry(l, k, value)

RECURSIVE TextsDecoded(_, _, _, _)
\* every JSON text of a mapping or an array in data whose label entry is a
\* mapping is no field of the container and, when it shows something, is a block
\* of it; the same in every block of the container that is no array
TextsDecoded(fields, blocks, data, labels) ==
    /\ \A i \in DOMAIN Entries(labels) :
          (/\ ~IsMetaKey(labels.v[i][1])
           /\ At(data, labels.v[i][1]).t = "string"
           /\ Decoded(At(data, labels.v[i][1])).t \in {"object", "array"}
           /\ ItemSchema(labels.v[i][2]).t = "object")
          => /\ \A f \in DOMAIN fields : fields[f].id # labels.v[i][1]
             /\ ShowsContent(Decoded(At(data, labels.v[i][1])), labels.v[i][2])
                   => \E b \in DOMAIN blocks :
                         /\ blocks[b].id = labels.v[i][1]
                         /\ blocks[b].isArray
                               = (Decoded(At(data, labels.v[i][1])).t = "array")
    /\ \A b \in DOMAIN blocks :
          ~blocks[b].isArray =>
              TextsDecoded(blocks[b].fields, blocks[b].nestedBlocks,
                           At(data, blocks[b].id), At(labels, blocks[b].id))

\* C22: a value at any depth that is the JSON text of a mapping or of an array
\* is read before it is matched: under a mapping label it is a block or an array
\* block, never a text field and never left out
EncodedValuesDecoded ==
    (Processed /\ formData.t = "object" /\ labelData.t = "object") =>
        \A i \in DOMAIN Entries(_labelData) :
            (IsSection(_labelData.v[i][1]) /\ Emitted(_labelData.v[i][1])) =>
                TextsDecoded(EmittedSection(_labelData.v[i][1]).fields,
                             EmittedSection(_labelData.v[i][1]).blocks,
                             SectionData(_labelData.v[i][1]),
                             SectionLabels(_labelData.v[i][1]))

\* the table of the array block has a header for every field of every row
WellFormedTable(block) ==
    /\ block.columns # <<>>
    /\ \A r \in DOMAIN block.items :
          \A f \in DOMAIN block.items[r].fields :
              \E c \in DOMAIN block.columns :
                  block.columns[c].fieldName = block.items[r].fields[f].key

\* C27: every array block of the tree has columns, and every field of every row
\* stands under a column of its key, whichever elements lack a labelled key
TablesWellFormed ==
    Processed =>
        \A s \in DOMAIN processedSections :
            \A b \in DOMAIN processedSections[s].blocks :
                processedSections[s].blocks[b].isArray
                    => WellFormedTable(processedSections[s].blocks[b])

-----------------------------------------------------------------------------
(* Properties of the placeholder and of the boolean icon, under SpecField. *)

\* C26: the display value of a field is the placeholder exactly when its value
\* is null or the empty string: every other value, 0 and false among them, is
\* shown as a text of its own under every type
PlaceholderOnlyForEmpty ==
    FieldEmitted => (TheField.displayValue = Placeholder <=> IsEmptyValue(InputValue))

\* a native boolean, or one of the texts true, yes, false and no in any case
IsBooleanValue(value) ==
    \/ value.t = "boolean"
    \/ value.t = "string" /\ ToLowerCase(value.v) \in {sTrue, sYesLower, sFalse, sNoLower}

\* C30: the icon of a boolean field agrees with its display value: the check
\* icon and the class icon-success exactly when it shows Yes, the close icon and
\* the class icon-error exactly when it shows No
BooleanIconAgrees ==
    (FieldEmitted /\ TheField.isBoolean /\ IsBooleanValue(InputValue)) =>
        /\ TheField.displayValue \in {sYes, sNo}
        /\ TheField.booleanIcon = sUtilityCheck <=> TheField.displayValue = sYes
        /\ TheField.booleanIconClass = sIconSuccess <=> TheField.displayValue = sYes
        /\ TheField.booleanIcon = sUtilityClose <=> TheField.displayValue = sNo
        /\ TheField.booleanIconClass = sIconError <=> TheField.displayValue = sNo

-----------------------------------------------------------------------------
(* Properties of the life of the component, under Spec.                    *)

\* C28: in the error state there is no tree: whenever hasError is true,
\* processedSections is empty
NoTreeWithError == hasError => processedSections = <<>>

-----------------------------------------------------------------------------
(* Properties of the rendering cycles, under SpecOmni: the properties the  *)
(* host gave do not change, so the content of omniJsonData that an         *)
(* initialization has processed is the content the component holds.        *)

\* C23: once the content of omniJsonData has been processed, by
\* connectedCallback or by renderedCallback, a renderedCallback with the same
\* content does not run initializeData again: it changes nothing
RenderedOnceProcessed ==
    [][(_isInitialized /\ Truthy(omniJsonData) /\ renderedCallback) => UNCHANGED vars]_vars

-----------------------------------------------------------------------------
(* Properties of the rendering cycles, under Spec.                         *)

\* the tree with every section expanded
Expanded(tree) ==
    [i \in DOMAIN tree |->
        [tree[i] EXCEPT !.isExpanded = TRUE, !.chevronIcon = sChevronDown]]

\* a renderedCallback in this state changes nothing: the content of omniJsonData
\* is the one of the hash, or there is no omniJsonData and the component is
\* initialized or has no formData
RenderedIdle ==
    IF Truthy(omniJsonData) THEN _lastOmniDataHash = Str(Stringify(omniJsonData))
    ELSE _isInitialized \/ ~Truthy(formData)

\* the tree initializeData leaves when it reads the documents data and labels
TreeFrom(data, labels) ==
    IF data.t = "thrown" \/ labels.t = "thrown" \/ ~Truthy(data) THEN processedSections
    ELSE IF processFormData(data, labels).t = "thrown" THEN processedSections
    ELSE processFormData(data, labels).sections

\* the tree initializeData gives from the properties as they are
TreeOfProperties ==
    TreeFrom(IF Truthy(formData) THEN parseIfString(formData) ELSE omniFormData,
             IF Truthy(labelData) THEN parseIfString(labelData) ELSE omniLabelData)

\* C29: after a renderedCallback the tree is the one initializeData gives from
\* the properties as they are, the sections the user collapsed apart: so it is
\* in every state that a renderedCallback leaves as it is
RenderedReflectsProperties ==
    RenderedIdle => Expanded(processedSections) = Expanded(TreeOfProperties)

-----------------------------------------------------------------------------
(* Properties of the section toggle, under Spec.                           *)

\* the chevron of every section of the tree agrees with its isExpanded
ChevronsAgree(tree) ==
    \A s \in DOMAIN tree :
        tree[s].chevronIcon = IF tree[s].isExpanded THEN sChevronDown ELSE sChevronRight

\* a section without its state of expansion
Collapsible(section) == [section EXCEPT !.isExpanded = TRUE, !.chevronIcon = sChevronDown]

\* the step flips the section of the id, if there is one, and nothing else
FlipsOnly(sectionId) ==
    /\ DOMAIN processedSections' = DOMAIN processedSections
    /\ Cardinality({s \in DOMAIN processedSections :
                       processedSections[s].id = sectionId}) <= 1
    /\ \A s \in DOMAIN processedSections :
          IF processedSections[s].id = sectionId
          THEN /\ processedSections'[s].isExpanded = ~processedSections[s].isExpanded
               /\ Collapsible(processedSections'[s]) = Collapsible(processedSections[s])
          ELSE processedSections'[s] = processedSections[s]
    /\ UNCHANGED <<omniJsonData, formData, labelData, hideEmptyFields, collapsibleSections,
                   _skipFields, isLoading, hasError, errorMessage, _formData, _labelData,
                   _lastOmniDataHash, _isInitialized>>

\* C25: a toggle flips isExpanded of the one section of the id and sets its
\* chevron to match, so that the chevron agrees with isExpanded in every state;
\* it changes nothing else, and nothing at all for an id no section carries; a
\* key other than Enter and Space toggles nothing
ToggleFlipsOne ==
    [][/\ ChevronsAgree(processedSections')
       /\ \A sectionId \in EventIds :
             /\ handleSectionToggle(sectionId) => FlipsOnly(sectionId)
             /\ \A key \in EventKeys :
                   handleSectionKeydown(key, sectionId)
                       => IF key \in {sEnter, sSpace} THEN FlipsOnly(sectionId)
                          ELSE UNCHANGED vars
       /\ handleSectionToggle(UnknownId) => UNCHANGED vars]_vars

\* one section is collapsed under the right chevron next to an expanded one
OneSectionCollapsed ==
    \E s, r \in DOMAIN processedSections :
        /\ ~processedSections[s].isExpanded
        /\ processedSections[s].chevronIcon = sChevronRight
        /\ processedSections[r].isExpanded

-----------------------------------------------------------------------------
(* Properties of the loading state, under Spec.                            *)

\* C24: the component does not stay loading once it has data: after every
\* initializeData isLoading is false, whatever the outcome, so that a component
\* that is loading has never run one; and when it is loading and holds
\* omniJsonData or formData, the next renderedCallback runs initializeData
LoadingEndsWithData ==
    /\ _isInitialized => ~isLoading
    /\ isLoading => (_lastOmniDataHash = Null /\ processedSections = <<>> /\ ~hasError)
    /\ (isLoading /\ (Truthy(omniJsonData) \/ Truthy(formData))) => ~RenderedIdle

\* data that came after the component was connected: a renderedCallback has
\* initialized the component from omniJsonData
InitializedByRendered ==
    /\ ~isLoading
    /\ _isInitialized
    /\ Truthy(omniJsonData)
    /\ _lastOmniDataHash = Str(Stringify(omniJsonData))

====
